---- MODULE Spec2Model ----
(***************************************************************************)
(* The game launcher of src/assets/launcher: launcher.c (main thread,      *)
(* sequences, process registry, process tree controller, instance lock,    *)
(* cleanup guard) and tray_menu.c (the tray handlers stop, kill, exit and  *)
(* restart, which run on the tray window's message thread).                *)
(*                                                                         *)
(* Each thread of the launcher is a stack of frames, the statements it     *)
(* still has to execute; one action executes the frame on top.  A frame    *)
(* is the unit of atomicity: a handler that touches shared state in        *)
(* several places is several frames.                                       *)
(***************************************************************************)
EXTENDS Integers, Sequences, FiniteSets, TLC

VARIABLES
    procs,                  \* the OS process table: pid -> [ppid, name, alive, closes, terms]
    pidFile,                \* content of G_PID_FILE (rjpids.ini)
    taskbarVisible,         \* whether Shell_TrayWnd is shown
    G_CONFIG,               \* the loaded configuration
    G_GAME_PROCESS_INFO,    \* [hProcess, dwProcessId] of the primary process
    G_TRACKED_PROCESSES,    \* head of the registry's linked list
    heap,                   \* the malloc'd TrackedProcess nodes: id -> [name, pid, next]
    freed,                  \* the nodes that have been free()d
    G_BORDERLESS_PROCESS,   \* handle kept outside the registry
    G_TASKBAR_WAS_HIDDEN,
    stk,                    \* thread -> frames still to execute
    trayCmds,               \* tray commands delivered so far
    hist,                   \* history of the run (what the properties talk about)
    inst,                   \* SpecLock: the launcher instances started on one directory
    lockFile,               \* SpecLock: content of their common PID file
    call                    \* SpecSeq, SpecTree: one call of a function, step by step

vars == <<procs, pidFile, taskbarVisible, G_CONFIG, G_GAME_PROCESS_INFO,
          G_TRACKED_PROCESSES, heap, freed, G_BORDERLESS_PROCESS,
          G_TASKBAR_WAS_HIDDEN, stk, trayCmds, hist, inst, lockFile, call>>

runVars == <<procs, pidFile, taskbarVisible, G_CONFIG, G_GAME_PROCESS_INFO,
             G_TRACKED_PROCESSES, heap, freed, G_BORDERLESS_PROCESS,
             G_TASKBAR_WAS_HIDDEN, stk, trayCmds, hist>>

lockVars == <<inst, lockFile>>

(***************************************************************************)
(* Bounds of the model.                                                    *)
(***************************************************************************)
MaxProcs == 6       \* processes the OS creates in one run, the launcher included
MaxNodes == 3       \* TrackedProcess nodes malloc'd in one run
MaxTrayCmds == 2    \* tray menu commands chosen in one run
MaxForks == 1       \* child processes the helpers and the game create by themselves
MaxExits == 1       \* processes that end by themselves in one run

(***************************************************************************)
(* Program constants.                                                      *)
(***************************************************************************)
NULL == 0
LauncherPid == 1
FanOutCap == 256
NoFile == 0         \* fopen(G_PID_FILE, "r") fails
Unreadable == -1    \* fscanf(pid_file, "%lu", ...) != 1

Threads == {"main", "tray"}

Min(a, b) == IF a < b THEN a ELSE b

\* s without its elements before index i
Drop(s, i) == SubSeq(s, i, Len(s))

(***************************************************************************)
(* Strings are sequences of symbols: "," the delimiter, " " white space,   *)
(* any other symbol a word without delimiter or white space.               *)
(***************************************************************************)
IsSpace(c) == c \in {" ", "\t", "\n", "\r"}

RECURSIVE SkipSpace(_)
\* trim_whitespace, first loop: the string from its first non-space symbol
SkipSpace(s) ==
    IF s # <<>> /\ IsSpace(Head(s)) THEN SkipSpace(Tail(s)) ELSE s

RECURSIVE DropTrailingSpace(_)
\* trim_whitespace, second loop
DropTrailingSpace(s) ==
    IF s # <<>> /\ IsSpace(s[Len(s)])
    THEN DropTrailingSpace(SubSeq(s, 1, Len(s) - 1))
    ELSE s

\* a trim that forgets the trailing white space
trim_leading_only(s) == SkipSpace(s)

trim_whitespace(s) == DropTrailingSpace(SkipSpace(s))

RECURSIVE SpanDelim(_)
\* start += strspn(start, delim)
SpanDelim(s) == IF s # <<>> /\ Head(s) = "," THEN SpanDelim(Tail(s)) ELSE s

RECURSIVE CSpanDelim(_)
\* strcspn(start, delim): the length of the prefix without delimiter
CSpanDelim(s) == IF s = <<>> \/ Head(s) = "," THEN 0 ELSE 1 + CSpanDelim(Tail(s))

RECURSIVE strtok_all(_)
\* the tokens compat_strtok_s returns for a string, call after call
strtok_all(s) ==
    LET start == SpanDelim(s)
        n == CSpanDelim(start)
    IN  IF start = <<>> THEN <<>>
        ELSE <<SubSeq(start, 1, n)>> \o
             (IF n < Len(start) THEN strtok_all(Drop(start, n + 2)) ELSE <<>>)

RECURSIVE DispatchList(_)
\* execute_sequence's loop: the trimmed tokens that reach execute_action
DispatchList(toks) ==
    IF toks = <<>> THEN <<>>
    ELSE LET t == trim_whitespace(Head(toks))
         IN  (IF Len(t) > 0 THEN <<t>> ELSE <<>>) \o DispatchList(Tail(toks))

\* what execute_sequence(sequence_str, _) passes to execute_action, in order
SequenceTokens(str) == IF Len(str) = 0 THEN <<>> ELSE DispatchList(strtok_all(str))

\* strcmp(action, "<word>") == 0
Is(action, word) == action = <<word>>

(***************************************************************************)
(* File names and process names: sequences of characters.                 *)
(***************************************************************************)
\* compat_stricmp's case folding: 'A'..'Z' + 32
LowerChar(c) ==
    CASE c = "G" -> "g" [] c = "P" -> "p" [] c = "Q" -> "q" [] c = "J" -> "j"
      [] c = "M" -> "m" [] c = "B" -> "b" [] c = "X" -> "x" [] OTHER -> c

ToLower(s) == [i \in 1..Len(s) |-> LowerChar(s[i])]

\* strcmp(a, b) == 0: a comparison that keeps the case
strcmp_eq(a, b) == a = b

\* _stricmp(a, b) == 0
stricmp_eq(a, b) == ToLower(a) = ToLower(b)

RECURSIVE LastIndexOf(_, _)
\* strrchr(s, c): the index of the last c in s, 0 when there is none
LastIndexOf(s, c) ==
    IF s = <<>> THEN 0
    ELSE IF s[Len(s)] = c THEN Len(s)
    ELSE LastIndexOf(SubSeq(s, 1, Len(s) - 1), c)

\* name = strrchr(path, '\\'); if (!name) name = strrchr(path, '/');
\* if (!name) name = path; else name++;
Basename(path) ==
    LET b == LastIndexOf(path, "\\")
        f == LastIndexOf(path, "/")
    IN  IF b > 0 THEN Drop(path, b + 1)
        ELSE IF f > 0 THEN Drop(path, f + 1)
        ELSE path

\* PROCESSENTRY32.szExeFile of a process created from the image at path
ImageName(path) ==
    LET b == LastIndexOf(path, "\\")
        f == LastIndexOf(path, "/")
    IN  Drop(path, (IF b > f THEN b ELSE f) + 1)

(***************************************************************************)
(* The OS process table.  P[pid] = [ppid, name, alive, closes, terms]:     *)
(* closes counts the CloseHandle calls the launcher made on the process    *)
(* handle CreateProcess returned for pid, terms the calls of               *)
(* terminate_process_tree with root pid.                                   *)
(***************************************************************************)
Alive(P, pid) == pid \in DOMAIN P /\ P[pid].alive

RECURSIVE ChildrenIn(_, _, _, _)
\* the snapshot's entries lo .. hi with th32ParentProcessID = pid, in the
\* order Process32Next gives them
ChildrenIn(P, pid, lo, hi) ==
    IF lo > hi THEN <<>>
    ELSE IF lo = hi
         THEN (IF P[lo].alive /\ P[lo].ppid = pid THEN <<lo>> ELSE <<>>)
         ELSE LET mid == (lo + hi) \div 2
              IN  ChildrenIn(P, pid, lo, mid) \o ChildrenIn(P, pid, mid + 1, hi)

\* the snapshot's entries with th32ParentProcessID = pid, from entry i on
ChildrenFrom(P, pid, i) == ChildrenIn(P, pid, i, Len(P))

\* a first pass that collects every child, however many there are
ChildrenUncapped(P, pid) == ChildrenFrom(P, pid, 1)

\* child_pids[0 .. child_count-1]: at most 256 of them
Children(P, pid) ==
    LET all == ChildrenFrom(P, pid, 1)
    IN  SubSeq(all, 1, Min(Len(all), FanOutCap))

RECURSIVE TreeOrder(_, _)
\* the pids terminate_process_tree(pid) terminates, in the order it does
TreeOrder(P, pid) ==
    LET RECURSIVE Sub(_)
        Sub(kids) == IF kids = <<>> THEN <<>>
                     ELSE TreeOrder(P, Head(kids)) \o Sub(Tail(kids))
    IN  Sub(Children(P, pid)) \o (IF Alive(P, pid) THEN <<pid>> ELSE <<>>)

SeqRange(s) == {s[i] : i \in DOMAIN s}

\* TerminateProcess(hProcess, 0) on one process
TerminateProcess(P, pid) ==
    [p \in DOMAIN P |-> IF p = pid THEN [P[p] EXCEPT !.alive = FALSE] ELSE P[p]]

CountTerm(P, pid) ==
    [p \in DOMAIN P |->
        IF p = pid THEN [P[p] EXCEPT !.terms = Min(@ + 1, 2)] ELSE P[p]]

\* a termination that stops at the process itself
terminate_root_only(P, pid) == CountTerm(TerminateProcess(P, pid), pid)

\* the process table after terminate_process_tree(pid)
terminate_process_tree(P, pid) ==
    LET dead == SeqRange(TreeOrder(P, pid))
        Q == CountTerm(P, pid)
    IN  [p \in DOMAIN Q |->
            IF p \in dead THEN [Q[p] EXCEPT !.alive = FALSE] ELSE Q[p]]

RECURSIVE KillMatches(_, _, _, _)
\* kill_process_by_name's loop over one snapshot S, from entry i on
KillMatches(P, S, name, i) ==
    IF i > Len(S) THEN P
    ELSE IF S[i].alive /\ stricmp_eq(S[i].name, name)
         THEN KillMatches(terminate_process_tree(P, i), S, name, i + 1)
         ELSE KillMatches(P, S, name, i + 1)

kill_process_by_name(P, name) == KillMatches(P, P, name, 1)

\* CreateProcessA / ShellExecuteA succeeded: the new process and its pid
NewPid(P) == Len(P) + 1

CreateProcess(P, path, parent) ==
    Append(P, [ppid |-> parent, name |-> ImageName(path), alive |-> TRUE,
               closes |-> 0, terms |-> 0])

\* CloseHandle on the process handle of pid (hThread goes with it)
CloseHandle(P, h) ==
    IF h \in DOMAIN P
    THEN [p \in DOMAIN P |->
            IF p = h THEN [P[p] EXCEPT !.closes = Min(@ + 1, 2)] ELSE P[p]]
    ELSE P

\* the descendants of pid by parent link, pid included, dead or alive
RECURSIVE Descendants(_, _)
Descendants(P, pid) ==
    {pid} \cup UNION {Descendants(P, c) : c \in {q \in DOMAIN P : P[q].ppid = pid /\ q > pid}}

\* pid and the processes a snapshot shows below it: children listed with
\* th32ParentProcessID = pid, and theirs
RECURSIVE SnapshotTree(_, _)
SnapshotTree(P, pid) ==
    {pid} \cup UNION {SnapshotTree(P, c) :
                         c \in {q \in DOMAIN P : P[q].alive /\ P[q].ppid = pid /\ q > pid}}

TreeDead(P, pid) == \A q \in Descendants(P, pid) : ~Alive(P, q)

(***************************************************************************)
(* The registry: a singly linked list of malloc'd nodes.                   *)
(***************************************************************************)
RECURSIVE ListFrom(_, _)
\* the nodes a traversal visits from node n on
ListFrom(H, n) == IF n = NULL THEN <<>> ELSE <<n>> \o ListFrom(H, H[n].next)

RECURSIVE FindIn(_, _, _)
FindIn(H, l, name) ==
    IF l = <<>> THEN NULL
    ELSE IF H[Head(l)].name = name THEN Head(l)
    ELSE FindIn(H, Tail(l), name)

\* find_tracked_process(name): the first node with that name, or NULL
find_tracked_process(H, head, name) == FindIn(H, ListFrom(H, head), name)

\* the nodes find/remove read before they stop
RECURSIVE VisitedUntil(_, _, _)
VisitedUntil(H, l, name) ==
    IF l = <<>> THEN {}
    ELSE IF H[Head(l)].name = name THEN {Head(l)}
    ELSE {Head(l)} \cup VisitedUntil(H, Tail(l), name)


(***************************************************************************)
(* The configuration (GameConfiguration, and the tray's lnk_path).         *)
(***************************************************************************)
ZeroConfig ==
    [executable |-> <<>>, iso_path |-> <<>>,
     controller_mapper_app |-> <<>>, player1_profile |-> <<>>,
     borderless_windowing_app |-> <<>>, borderless |-> <<>>,
     terminate_borderless_on_exit |-> FALSE,
     multimonitor_tool |-> <<>>, mm_game_config |-> <<>>, mm_desktop_config |-> <<>>,
     cloud_app |-> <<>>,
     disc_mount_app |-> <<>>, disc_mount_wait |-> FALSE,
     disc_unmount_app |-> <<>>, disc_unmount_wait |-> FALSE,
     run_as_admin |-> FALSE, hide_taskbar |-> FALSE,
     use_kill_list |-> FALSE, kill_list |-> <<>>,
     pre_launch_app_1 |-> <<>>, pre_launch_app_1_wait |-> FALSE,
     pre_launch_app_2 |-> <<>>, pre_launch_app_2_wait |-> FALSE,
     pre_launch_app_3 |-> <<>>, pre_launch_app_3_wait |-> FALSE,
     post_launch_app_1 |-> <<>>, post_launch_app_1_wait |-> FALSE,
     post_launch_app_2 |-> <<>>, post_launch_app_2_wait |-> FALSE,
     post_launch_app_3 |-> <<>>, post_launch_app_3_wait |-> FALSE,
     just_after_launch_app |-> <<>>, just_after_launch_wait |-> FALSE,
     just_before_exit_app |-> <<>>, just_before_exit_wait |-> FALSE,
     launch_sequence |-> <<>>, exit_sequence |-> <<>>,
     home |-> <<>>, name |-> <<>>, lnk_path |-> <<>>]

\* the files of the run's directory: Game.ini names executables in d\ and t/
GamePath == <<"d", "\\", "G">>
Pre1Path == <<"$HOME", "\\", "p">>
Pre2Path == <<"t", "/", "q">>
JbePath == <<"t", "/", "j">>
MapperPath == <<"t", "/", "m">>
ProfilePath == <<"t", "/", "1">>
BorderlessPath == <<"t", "/", "b">>
LnkPath == <<"d", "\\", "l">>
NoGamePath == <<"d", "\\", "txt">>      \* a file CreateProcessA cannot run
NoAppPath == <<"t", "/", "txt">>        \* another one

BaseConfig ==
    [ZeroConfig EXCEPT !.executable = GamePath, !.home = <<"d">>, !.name = <<"n">>,
                       !.lnk_path = LnkPath]

\* the Game.ini files the model runs with
Configs ==
    { [BaseConfig EXCEPT
          !.pre_launch_app_1 = Pre1Path, !.pre_launch_app_2 = Pre2Path,
          !.launch_sequence = <<"Pre1", ",", " ", "Pre2">>,
          !.just_before_exit_app = JbePath,
          !.use_kill_list = TRUE, !.kill_list = <<"Q">>,
          !.exit_sequence = <<"JustBeforeExit">>],
      [BaseConfig EXCEPT
          !.pre_launch_app_1 = Pre1Path, !.pre_launch_app_2 = Pre2Path,
          !.launch_sequence = <<"Pre1", ",", "Pre2">>,
          !.hide_taskbar = TRUE,
          !.exit_sequence = <<"Kill-Game", ",", "Taskbar">>],
      [BaseConfig EXCEPT
          !.controller_mapper_app = MapperPath, !.player1_profile = ProfilePath,
          !.hide_taskbar = TRUE,
          !.launch_sequence = <<"No-TB", ",", "Controller-Mapper">>,
          !.exit_sequence = <<" ", "Controller-Mapper", ",", ",", "Bogus">>],
      [BaseConfig EXCEPT
          !.run_as_admin = TRUE, !.hide_taskbar = TRUE,
          !.pre_launch_app_1 = Pre1Path, !.pre_launch_app_1_wait = TRUE,
          !.launch_sequence = <<"No-TB", ",", "Pre1">>,
          !.exit_sequence = <<"Bogus", ",", "Taskbar">>],
      [BaseConfig EXCEPT
          !.controller_mapper_app = MapperPath, !.player1_profile = ProfilePath,
          !.launch_sequence = <<"Controller-Mapper", ",", "Controller-Mapper">>,
          !.exit_sequence = <<"Controller-Mapper">>] }
    \cup { [BaseConfig EXCEPT
              !.hide_taskbar = hide, !.executable = exe,
              !.launch_sequence = <<"No-TB">>, !.exit_sequence = <<"Taskbar">>] :
            hide \in BOOLEAN, exe \in {GamePath, NoGamePath, <<>>} }
    \cup { [BaseConfig EXCEPT
              !.pre_launch_app_1 = NoAppPath, !.pre_launch_app_2 = Pre2Path,
              !.controller_mapper_app = NoAppPath, !.player1_profile = ProfilePath,
              !.borderless = <<"E">>, !.borderless_windowing_app = NoAppPath,
              !.launch_sequence = <<"Pre1", ",", "Controller-Mapper", ",",
                                    "Borderless", ",", "Pre2">>] }
    \cup { [BaseConfig EXCEPT
              !.borderless = <<"E">>, !.borderless_windowing_app = BorderlessPath,
              !.terminate_borderless_on_exit = term,
              !.launch_sequence = <<"Borderless">>,
              !.exit_sequence = <<"Borderless">>] : term \in BOOLEAN }

\* GetFileAttributesA(path) != INVALID_FILE_ATTRIBUTES
FileExists(path) ==
    path \in {GamePath, <<"d", "\\", "p">>, Pre2Path, JbePath, MapperPath, ProfilePath,
              NoGamePath, NoAppPath, BorderlessPath}

RECURSIVE string_replace(_, _, _)
\* string_replace(dest, size, src, find, replace) for a one-symbol find
string_replace(src, find, replace) ==
    IF src = <<>> THEN <<>>
    ELSE (IF Head(src) = find THEN replace ELSE <<Head(src)>>)
         \o string_replace(Tail(src), find, replace)

resolve_path(cfg, path) ==
    string_replace(
        string_replace(string_replace(path, "$GAMENAME", cfg.name), "$HOME", cfg.home),
        "$ISO", cfg.iso_path)

(***************************************************************************)
(* The state as one record, and the frames of a thread.                    *)
(***************************************************************************)
St ==
    [procs |-> procs, pidFile |-> pidFile, tb |-> taskbarVisible, cfg |-> G_CONFIG,
     game |-> G_GAME_PROCESS_INFO, head |-> G_TRACKED_PROCESSES, heap |-> heap,
     freed |-> freed, bl |-> G_BORDERLESS_PROCESS, tbHid |-> G_TASKBAR_WAS_HIDDEN,
     stk |-> stk, cmds |-> trayCmds, hist |-> hist]

Assigns(S) ==
    \E R \in {S} :
        /\ procs' = R.procs
        /\ pidFile' = R.pidFile
        /\ taskbarVisible' = R.tb
        /\ G_CONFIG' = R.cfg
        /\ G_GAME_PROCESS_INFO' = R.game
        /\ G_TRACKED_PROCESSES' = R.head
        /\ heap' = R.heap
        /\ freed' = R.freed
        /\ G_BORDERLESS_PROCESS' = R.bl
        /\ G_TASKBAR_WAS_HIDDEN' = R.tbHid
        /\ stk' = R.stk
        /\ trayCmds' = R.cmds
        /\ hist' = R.hist

Becomes(S) == Assigns(S) /\ UNCHANGED <<lockVars, call>>

F(op) == [op |-> op, toks |-> <<>>, ex |-> FALSE, n |-> 0]
Fn(op, n) == [op |-> op, toks |-> <<>>, ex |-> FALSE, n |-> n]
Fseq(toks, ex) == [op |-> "execute_sequence", toks |-> toks, ex |-> ex, n |-> 0]

Push(S, t, frames) == [S EXCEPT !.stk[t] = frames \o @]

\* ZeroMemory(&pi, sizeof(PROCESS_INFORMATION))
ZeroPI == [hProcess |-> NULL, dwProcessId |-> 0]

Running == Alive(procs, LauncherPid)

\* thread t is about to execute a frame op
At(t, op) == Running /\ stk[t] # <<>> /\ Head(stk[t]).op = op

Top(t) == Head(stk[t])

\* the state with t's top frame taken off
Popped(t) == [St EXCEPT !.stk[t] = Tail(@)]

\* the launcher process ends: return from main, ExitProcess, or a crash
EndProcess(S, how) ==
    [S EXCEPT !.procs = TerminateProcess(@, LauncherPid), !.hist.exit = how]

\* a read or free of memory that was freed: the stale content is still there,
\* or the process dies of it
Undefined(S, stale) ==
    {[stale EXCEPT !.hist.ub = TRUE], EndProcess([S EXCEPT !.hist.ub = TRUE], "crash")}

\* the outcomes of an access to the nodes ns, continuing as stale when it survives
Access(S, ns, stale) ==
    IF ns \cap S.freed = {} THEN {stale} ELSE Undefined(S, stale)


(***************************************************************************)
(* Spawning, and the registry's operations.                                *)
(***************************************************************************)
\* CreateProcessA succeeds: the image is one Windows can run, and the table has room
NotAnImage == "txt"
CanCreate(S, path) == Len(S.procs) < MaxProcs /\ path[Len(path)] # NotAnImage
CanTrack(S) == Len(S.heap) < MaxNodes

\* add_tracked_process, up to tp->next = G_TRACKED_PROCESSES; the frame it
\* leaves does G_TRACKED_PROCESSES = tp
add_tracked_process(S, t, name, pid) ==
    LET tp == Len(S.heap) + 1
    IN  Push([S EXCEPT !.heap = Append(@, [name |-> name, pid |-> pid, next |-> S.head]),
                       !.hist.tracked = @ \cup {pid}],
             t, <<Fn("add_tracked_process", tp)>>)

\* remove_tracked_process(name): unlink and free the first node of that name
remove_tracked_process(S, name) ==
    LET l == ListFrom(S.heap, S.head)
        tp == FindIn(S.heap, l, name)
        unlinked ==
            IF tp = NULL THEN S
            ELSE IF S.head = tp
                 THEN [S EXCEPT !.head = S.heap[tp].next, !.freed = @ \cup {tp}]
                 ELSE LET prev == CHOOSE q \in SeqRange(l) : S.heap[q].next = tp
                      IN  [S EXCEPT !.heap[prev].next = S.heap[tp].next,
                                    !.freed = @ \cup {tp}]
    IN  Access(S, VisitedUntil(S.heap, l, name), unlinked)

\* run_process(cmd, NULL, TRUE, &pi): CreateProcessA fails, or the frame left
\* waits for the process and closes its handles
run_process_wait(S, t, path) ==
    IF CanCreate(S, path)
    THEN Push([S EXCEPT !.procs = CreateProcess(@, path, LauncherPid)],
              t, <<Fn("run_process_wait", NewPid(S.procs))>>)
    ELSE S

\* run_process(cmd, NULL, FALSE, &pi) whose handles nobody keeps
run_process_nowait(S, path) ==
    IF CanCreate(S, path)
    THEN [S EXCEPT !.procs = CreateProcess(@, path, LauncherPid)]
    ELSE S

(***************************************************************************)
(* The actions of a sequence, S the state in which the token is consumed.  *)
(***************************************************************************)
set_taskbar_visibility(S, show) ==
    [S EXCEPT !.tb = show, !.tbHid = IF show THEN @ ELSE TRUE]

action_hide_taskbar(S) ==
    IF S.cfg.hide_taskbar THEN set_taskbar_visibility(S, FALSE) ELSE S

\* a Taskbar action that leaves the taskbar as it is
taskbar_left_alone(S) == S

action_show_taskbar(S) == set_taskbar_visibility(S, TRUE)

\* a generic application that is never waited for
action_run_generic_app_never_waits(S, t, app_path, wait) ==
    IF Len(app_path) = 0 THEN S
    ELSE LET resolved == resolve_path(S.cfg, app_path)
         IN  IF ~FileExists(resolved) THEN S
             ELSE IF CanCreate(S, resolved) /\ CanTrack(S)
                  THEN add_tracked_process(
                           [S EXCEPT !.procs = CreateProcess(@, resolved, LauncherPid)],
                           t, resolved, NewPid(S.procs))
                  ELSE S

\* a generic application that is registered whether or not it was started
action_run_generic_app_registers(S, t, app_path, wait) ==
    IF Len(app_path) = 0 THEN S
    ELSE LET resolved == resolve_path(S.cfg, app_path)
         IN  IF ~FileExists(resolved) THEN S
             ELSE IF wait THEN run_process_wait(S, t, resolved)
             ELSE IF CanCreate(S, resolved) /\ CanTrack(S)
                  THEN add_tracked_process(
                           [S EXCEPT !.procs = CreateProcess(@, resolved, LauncherPid)],
                           t, resolved, NewPid(S.procs))
                  ELSE IF CanTrack(S) THEN add_tracked_process(S, t, resolved, 0)
                  ELSE S

action_run_generic_app(S, t, app_path, wait) ==
    IF Len(app_path) = 0 THEN S
    ELSE LET resolved == resolve_path(S.cfg, app_path)
         IN  IF ~FileExists(resolved) THEN S
             ELSE IF wait THEN run_process_wait(S, t, resolved)
             ELSE IF CanCreate(S, resolved) /\ CanTrack(S)
                  THEN add_tracked_process(
                           [S EXCEPT !.procs = CreateProcess(@, resolved, LauncherPid)],
                           t, resolved, NewPid(S.procs))
                  ELSE S

action_run_controller_mapper(S, t) ==
    LET app == S.cfg.controller_mapper_app
        p1 == S.cfg.player1_profile
    IN  IF Len(app) = 0 \/ Len(p1) = 0 THEN S
        ELSE IF ~FileExists(app) \/ ~FileExists(p1) THEN S
        ELSE IF CanCreate(S, app) /\ CanTrack(S)
             THEN add_tracked_process(
                      [S EXCEPT !.procs = CreateProcess(@, app, LauncherPid)],
                      t, <<"controller_mapper">>, NewPid(S.procs))
             ELSE S

\* the run's history keeps the processes a kill by name ended
KilledByName(S, P2) ==
    [S EXCEPT !.procs = P2,
              !.hist.byName = @ \cup {p \in DOMAIN P2 : S.procs[p].alive /\ ~P2[p].alive}]

\* action_kill_controller_mapper up to terminate_process_tree; the frame it
\* leaves closes the handles and removes the entry
action_kill_controller_mapper(S, t) ==
    LET l == ListFrom(S.heap, S.head)
        tp == FindIn(S.heap, l, <<"controller_mapper">>)
    IN  IF tp # NULL
        THEN Access(S, VisitedUntil(S.heap, l, <<"controller_mapper">>),
                    Push([S EXCEPT !.procs = terminate_process_tree(@, S.heap[tp].pid)],
                         t, <<Fn("kill_controller_mapper_close", tp)>>))
        ELSE Access(S, SeqRange(l),
                    IF Len(S.cfg.controller_mapper_app) > 0
                    THEN KilledByName(S, kill_process_by_name(
                                        S.procs, Basename(S.cfg.controller_mapper_app)))
                    ELSE S)

action_run_monitor_config(S, t, config) ==
    IF Len(S.cfg.multimonitor_tool) = 0 \/ Len(config) = 0 THEN S
    ELSE IF ~FileExists(S.cfg.multimonitor_tool) \/ ~FileExists(config) THEN S
    ELSE run_process_wait(S, t, S.cfg.multimonitor_tool)

action_run_borderless(S) ==
    IF S.cfg.borderless \in {<<"E">>, <<"K">>} /\ Len(S.cfg.borderless_windowing_app) > 0
    THEN IF ~FileExists(S.cfg.borderless_windowing_app) THEN S
         ELSE IF CanCreate(S, S.cfg.borderless_windowing_app)
              THEN [S EXCEPT !.procs = CreateProcess(@, S.cfg.borderless_windowing_app,
                                                     LauncherPid),
                             !.bl = NewPid(S.procs)]
              ELSE S
    ELSE S

\* a Borderless exit action that does not ask for terminate_borderless_on_exit
action_kill_borderless_always(S) ==
    IF S.bl # NULL
    THEN [S EXCEPT !.procs = CloseHandle(terminate_process_tree(@, S.bl), S.bl),
                   !.bl = NULL]
    ELSE S

action_kill_borderless(S) ==
    IF S.cfg.terminate_borderless_on_exit /\ S.bl # NULL
    THEN [S EXCEPT !.procs = CloseHandle(terminate_process_tree(@, S.bl), S.bl),
                   !.bl = NULL]
    ELSE IF S.cfg.terminate_borderless_on_exit /\ Len(S.cfg.borderless_windowing_app) > 0
    THEN KilledByName(S, kill_process_by_name(
                         S.procs, Basename(S.cfg.borderless_windowing_app)))
    ELSE S

action_run_cloud_sync(S, t) ==
    IF Len(S.cfg.cloud_app) = 0 \/ ~FileExists(S.cfg.cloud_app) THEN S
    ELSE run_process_wait(S, t, S.cfg.cloud_app)

action_kill_game(S) ==
    IF Len(S.cfg.executable) > 0
    THEN KilledByName(S, kill_process_by_name(S.procs, Basename(S.cfg.executable)))
    ELSE S

RECURSIVE KillNames(_, _)
KillNames(P, names) ==
    IF names = <<>> THEN P
    ELSE KillNames(kill_process_by_name(P, Head(names)), Tail(names))

action_kill_process_list(S) ==
    IF ~S.cfg.use_kill_list \/ Len(S.cfg.kill_list) = 0 THEN S
    ELSE KilledByName(S, KillNames(S.procs, SequenceTokens(S.cfg.kill_list)))

action_mount_iso(S, t) ==
    IF Len(S.cfg.iso_path) = 0 \/ ~FileExists(resolve_path(S.cfg, S.cfg.iso_path)) THEN S
    ELSE run_process_wait(S, t, <<"powershell">>)

action_unmount_iso(S, t) ==
    IF Len(S.cfg.iso_path) = 0 THEN S
    ELSE run_process_wait(S, t, <<"powershell">>)

action_mount_disc_with_app(S, t) ==
    LET app == resolve_path(S.cfg, S.cfg.disc_mount_app)
    IN  IF Len(S.cfg.disc_mount_app) = 0 \/ Len(S.cfg.iso_path) = 0 THEN action_mount_iso(S, t)
        ELSE IF ~FileExists(app) THEN action_mount_iso(S, t)
        ELSE IF ~FileExists(resolve_path(S.cfg, S.cfg.iso_path)) THEN S
        ELSE IF S.cfg.disc_mount_wait THEN run_process_wait(S, t, app)
        ELSE run_process_nowait(S, app)

action_unmount_disc_with_app(S, t) ==
    LET app == resolve_path(S.cfg, S.cfg.disc_unmount_app)
    IN  IF Len(S.cfg.disc_unmount_app) = 0 \/ Len(S.cfg.iso_path) = 0
        THEN action_unmount_iso(S, t)
        ELSE IF ~FileExists(app) THEN action_unmount_iso(S, t)
        ELSE IF S.cfg.disc_unmount_wait THEN run_process_wait(S, t, app)
        ELSE run_process_nowait(S, app)

\* execute_action(action, is_exit_sequence), where no registry traversal is involved
dispatch(S, t, action, ex) ==
    LET c == S.cfg IN
    IF Is(action, "Kill-Game") THEN action_kill_game(S)
    ELSE IF Is(action, "Kill-List") THEN action_kill_process_list(S)
    ELSE IF Is(action, "Controller-Mapper") THEN action_run_controller_mapper(S, t)
    ELSE IF Is(action, "Monitor-Config")
         THEN action_run_monitor_config(S, t, IF ex THEN c.mm_desktop_config
                                               ELSE c.mm_game_config)
    ELSE IF Is(action, "No-TB") THEN (IF ~ex THEN action_hide_taskbar(S) ELSE S)
    ELSE IF Is(action, "Taskbar") THEN (IF ex THEN action_show_taskbar(S) ELSE S)
    ELSE IF Is(action, "Borderless")
         THEN IF ex THEN action_kill_borderless(S) ELSE action_run_borderless(S)
    ELSE IF Is(action, "Cloud-Sync") THEN action_run_cloud_sync(S, t)
    ELSE IF Is(action, "mount-disc")
         THEN IF ~ex THEN action_mount_disc_with_app(S, t) ELSE S
    ELSE IF Is(action, "Unmount-disc")
         THEN IF ex THEN action_unmount_disc_with_app(S, t) ELSE S
    ELSE IF Is(action, "Pre1")
         THEN action_run_generic_app(S, t, c.pre_launch_app_1, c.pre_launch_app_1_wait)
    ELSE IF Is(action, "Pre2")
         THEN action_run_generic_app(S, t, c.pre_launch_app_2, c.pre_launch_app_2_wait)
    ELSE IF Is(action, "Pre3")
         THEN action_run_generic_app(S, t, c.pre_launch_app_3, c.pre_launch_app_3_wait)
    ELSE IF Is(action, "Post1")
         THEN action_run_generic_app(S, t, c.post_launch_app_1, c.post_launch_app_1_wait)
    ELSE IF Is(action, "Post2")
         THEN action_run_generic_app(S, t, c.post_launch_app_2, c.post_launch_app_2_wait)
    ELSE IF Is(action, "Post3")
         THEN action_run_generic_app(S, t, c.post_launch_app_3, c.post_launch_app_3_wait)
    ELSE IF Is(action, "JustAfterLaunch")
         THEN action_run_generic_app(S, t, c.just_after_launch_app, c.just_after_launch_wait)
    ELSE IF Is(action, "JustBeforeExit")
         THEN action_run_generic_app(S, t, c.just_before_exit_app, c.just_before_exit_wait)
    ELSE S

\* an execute_action that runs the mapper whatever is_exit_sequence says
execute_action_always_runs(S, t, action, ex) == {dispatch(S, t, action, ex)}

\* an execute_action that gives up the sequence at a token it does not know
execute_action_giving_up(S, t, action, ex) ==
    IF Is(action, "Controller-Mapper") /\ ex
    THEN action_kill_controller_mapper(S, t)
    ELSE IF Is(action, "Bogus")
         THEN {[S EXCEPT !.stk[t] = IF @ # <<>> /\ Head(@).op = "execute_sequence"
                                    THEN Tail(@) ELSE @]}
    ELSE {dispatch(S, t, action, ex)}

\* execute_action(action, is_exit_sequence): the states it can lead to
execute_action(S, t, action, ex) ==
    IF Is(action, "Controller-Mapper") /\ ex
    THEN action_kill_controller_mapper(S, t)
    ELSE {dispatch(S, t, action, ex)}

(***************************************************************************)
(* The instance lock.                                                      *)
(***************************************************************************)
\* check_instances' test of a PID file content: fscanf read a pid, OpenProcess
\* succeeded and GetExitCodeProcess gave STILL_ACTIVE
InstanceRunning(P, content) ==
    content # NoFile /\ content # Unreadable /\ Alive(P, content)

\* write_pid_file: the content after fprintf(pid_file, "%lu", GetCurrentProcessId())
write_pid_file(me) == me

\* cleanup_pid_file: DeleteFileA(G_PID_FILE)
cleanup_pid_file == NoFile

\* a lock check that writes its pid before it looks at the stored one
check_instances_writes_first(P, content, me) ==
    [ret |-> ~InstanceRunning(P, content), file |-> write_pid_file(me)]

\* a lock check that takes every stored pid for a running instance
check_instances_no_reclaim(P, content, me) ==
    IF content # NoFile /\ content # Unreadable
    THEN [ret |-> FALSE, file |-> content]
    ELSE [ret |-> TRUE, file |-> write_pid_file(me)]

\* check_instances() of process me: what it returns and the PID file it leaves
check_instances(P, content, me) ==
    IF InstanceRunning(P, content)
    THEN [ret |-> FALSE, file |-> content]
    ELSE [ret |-> TRUE, file |-> write_pid_file(me)]

\* what check_instances found in the PID file
Saw(P, content) ==
    IF content = NoFile THEN "nofile"
    ELSE IF content = Unreadable THEN "unreadable"
    ELSE IF Alive(P, content) THEN "alive" ELSE "dead"

(***************************************************************************)
(* The main thread: main() of launcher.c.                                  *)
(***************************************************************************)
MainProgram ==
    <<F("check_instances"), F("load_configuration"), F("launch_sequence"),
      F("run_game_process"), F("wait_game"), F("exit_sequence"),
      F("ensure_cleanup"), F("main_return")>>

\* execute_sequence(str, ex) begins: the frame that dispatches its tokens
StartSequence(S, t, str, ex) ==
    LET toks == SequenceTokens(str)
    IN  IF toks = <<>> THEN S ELSE Push(S, t, <<Fseq(toks, ex)>>)

\* main: if (!check_instances()) return 1
main_check_instances ==
    /\ At("main", "check_instances")
    /\ LET S == Popped("main")
           r == check_instances(S.procs, S.pidFile, LauncherPid)
           S1 == [S EXCEPT !.pidFile = r.file, !.hist.saw = Saw(S.procs, S.pidFile)]
       IN  Becomes(IF r.ret THEN S1 ELSE EndProcess(S1, "refused"))

\* a main that reports the failure to load and goes on
load_configuration_goes_on ==
    /\ At("main", "load_configuration")
    /\ LET S == [Popped("main") EXCEPT !.hist.saw = ""]
       IN  \/ Becomes([S EXCEPT !.hist.exit = "noconfig"])
           \/ \E c \in Configs : Becomes([S EXCEPT !.cfg = c])

\* main: memset; if (load_configuration(ini_path) != 0) return 1
load_configuration ==
    /\ At("main", "load_configuration")
    /\ LET S == [Popped("main") EXCEPT !.hist.saw = ""]
       IN  \/ Becomes(EndProcess(S, "noconfig"))
           \/ \E c \in Configs : Becomes([S EXCEPT !.cfg = c])

\* main: execute_sequence(G_CONFIG.launch_sequence, 0)
launch_sequence ==
    /\ At("main", "launch_sequence")
    /\ Becomes(StartSequence(Popped("main"), "main", G_CONFIG.launch_sequence, FALSE))

\* what the run's history keeps of a dispatch
Note(S, t, action, ex) ==
    IF t = "tray"
    THEN [S EXCEPT !.hist.dispatched = TRUE,
                   !.hist.killDisp = @ \/ S.hist.trayOp = "kill",
                   !.hist.stop.log = IF S.hist.stop.phase = "seq"
                                     THEN Append(@, [action |-> action, ex |-> ex])
                                     ELSE @]
    ELSE [S EXCEPT !.hist.dispatched = TRUE,
                   !.hist.exitEarly = @ \/ (ex /\ S.cmds = 0
                                             /\ Alive(S.procs, S.hist.primary))]

\* one turn of execute_sequence's loop: the next token goes to execute_action
execute_sequence(t) ==
    /\ At(t, "execute_sequence")
    /\ LET f == Top(t)
           rest == Tail(f.toks)
           S == Popped(t)
           K == IF rest = <<>> THEN S ELSE Push(S, t, <<Fseq(rest, f.ex)>>)
       IN  \E K0 \in {Note(K, t, Head(f.toks), f.ex)} :
               \E S2 \in execute_action(K0, t, Head(f.toks), f.ex) : Becomes(S2)

\* a wait that returns only when everything the process started is gone too
run_process_wait_for_tree(t) ==
    /\ At(t, "run_process_wait")
    /\ TreeDead(procs, Top(t).n)
    /\ Becomes([Popped(t) EXCEPT !.procs = CloseHandle(@, Top(t).n)])

\* run_process with wait: WaitForSingleObject returns, the handles are closed
run_process_wait_returns(t) ==
    /\ At(t, "run_process_wait")
    /\ ~Alive(procs, Top(t).n)
    /\ Becomes([Popped(t) EXCEPT !.procs = CloseHandle(@, Top(t).n)])

\* add_tracked_process: G_TRACKED_PROCESSES = tp
add_tracked_process_link(t) ==
    /\ At(t, "add_tracked_process")
    /\ Becomes([Popped(t) EXCEPT !.head = Top(t).n,
                                 !.hist.linked = @ \cup {Top(t).n}])

\* action_kill_controller_mapper: CloseHandle twice, remove_tracked_process
kill_controller_mapper_close(t) ==
    /\ At(t, "kill_controller_mapper_close")
    /\ LET S == Popped(t)
           tp == Top(t).n
           closed == [S EXCEPT !.procs = CloseHandle(@, S.heap[tp].pid)]
       IN  \E S1 \in Access(S, {tp}, closed) :
               IF Alive(S1.procs, LauncherPid)
               THEN \E S2 \in remove_tracked_process(S1, <<"controller_mapper">>) :
                        Becomes(S2)
               ELSE Becomes(S1)

run_game_process ==
    /\ At("main", "run_game_process")
    /\ LET S == Popped("main")
           exe == S.cfg.executable
           started == [S EXCEPT !.procs = CreateProcess(@, exe, LauncherPid)]
       IN  IF Len(exe) = 0 THEN Becomes(S)
           ELSE IF S.cfg.run_as_admin
           THEN IF CanCreate(S, exe)
                THEN Becomes([started EXCEPT !.game.hProcess = NULL,
                                             !.hist.primary = NewPid(S.procs)])
                ELSE Becomes(S)
           ELSE IF CanCreate(S, exe)
                THEN Becomes([started EXCEPT
                                 !.game = [hProcess |-> NewPid(S.procs),
                                           dwProcessId |-> NewPid(S.procs)],
                                 !.hist.primary = NewPid(S.procs)])
                ELSE Becomes([S EXCEPT !.game = ZeroPI])

\* main: if (G_GAME_PROCESS_INFO.hProcess != NULL) WaitForSingleObject ... else SleepMs
wait_game ==
    /\ At("main", "wait_game")
    /\ LET S == Popped("main")
       IN  Becomes(IF S.game.hProcess # NULL
                   THEN Push(S, "main", <<Fn("wait_primary", S.game.hProcess),
                                          F("close_primary")>>)
                   ELSE S)

\* WaitForSingleObject(G_GAME_PROCESS_INFO.hProcess, INFINITE) returns
wait_primary ==
    /\ At("main", "wait_primary")
    /\ ~Alive(procs, Top("main").n)
    /\ Becomes(Popped("main"))

\* main: CloseHandle(G_GAME_PROCESS_INFO.hProcess); CloseHandle(...hThread)
close_primary ==
    /\ At("main", "close_primary")
    /\ Becomes([Popped("main") EXCEPT !.procs = CloseHandle(@, G_GAME_PROCESS_INFO.hProcess)])

\* the run's history counts the runs of a non-empty exit sequence (up to 2)
NoteExit(S) ==
    IF SequenceTokens(S.cfg.exit_sequence) = <<>> THEN S
    ELSE [S EXCEPT !.hist.exitRuns = Min(@ + 1, 2)]

\* main: execute_sequence(G_CONFIG.exit_sequence, 1)
exit_sequence ==
    /\ At("main", "exit_sequence")
    /\ Becomes(StartSequence(NoteExit(Popped("main")), "main",
                             G_CONFIG.exit_sequence, TRUE))

\* main returns 0
main_return ==
    /\ At("main", "main_return")
    /\ Becomes(EndProcess(Popped("main"), "return"))

(***************************************************************************)
(* The cleanup guard.                                                      *)
(***************************************************************************)
\* ensure_cleanup up to kill_all_tracked_processes' current = G_TRACKED_PROCESSES
ensure_cleanup(t) ==
    /\ At(t, "ensure_cleanup")
    /\ LET S == Popped(t)
           S1 == IF S.tbHid THEN action_show_taskbar(S) ELSE S
           S2 == [S1 EXCEPT !.hist.cleanups = Min(@ + 1, 2)]
       IN  Becomes(Push(S2, t,
                  (IF S.head # NULL THEN <<Fn("kill_all_tracked_processes", S.head)>>
                   ELSE <<>>) \o <<F("free_tracked_processes"), F("cleanup_tail")>>))

\* kill_all_tracked_processes, one turn of the first loop
kill_all_tracked_processes(t) ==
    /\ At(t, "kill_all_tracked_processes")
    /\ LET S == Popped(t)
           current == Top(t).n
           node == S.heap[current]
           done == [S EXCEPT !.procs = CloseHandle(terminate_process_tree(@, node.pid),
                                                   node.pid)]
           stale == IF node.next # NULL
                    THEN Push(done, t, <<Fn("kill_all_tracked_processes", node.next)>>)
                    ELSE done
       IN  \E S2 \in Access(S, {current}, stale) : Becomes(S2)

\* a second loop that leaves the list as it is
free_nothing(t) ==
    /\ At(t, "free_tracked_processes")
    /\ Becomes(Popped(t))

\* kill_all_tracked_processes, one turn of the second loop
free_tracked_processes(t) ==
    /\ At(t, "free_tracked_processes")
    /\ LET S == Popped(t)
           to_remove == S.head
       IN  IF to_remove = NULL THEN Becomes(S)
           ELSE \E S2 \in Access(S, {to_remove},
                                 Push([S EXCEPT !.head = S.heap[to_remove].next,
                                                !.freed = @ \cup {to_remove}],
                                      t, <<F("free_tracked_processes")>>)) :
                    Becomes(S2)

\* an end of ensure_cleanup that leaves the PID file
cleanup_tail_keeps_lock(t) ==
    /\ At(t, "cleanup_tail")
    /\ LET S == Popped(t)
       IN  Becomes([S EXCEPT !.procs = IF S.bl # NULL THEN CloseHandle(@, S.bl) ELSE @,
                             !.bl = NULL])

\* ensure_cleanup after kill_all_tracked_processes
cleanup_tail(t) ==
    /\ At(t, "cleanup_tail")
    /\ LET S == Popped(t)
       IN  Becomes([S EXCEPT !.procs = IF S.bl # NULL THEN CloseHandle(@, S.bl) ELSE @,
                             !.bl = NULL,
                             !.pidFile = cleanup_pid_file])


(***************************************************************************)
(* The tray thread: the handlers of tray_menu.c.                           *)
(***************************************************************************)
TrayCommands == {"stop", "kill", "exit", "restart"}

HandlerOf(c) ==
    CASE c = "stop" -> "tray_stop_game"
      [] c = "kill" -> "tray_kill_all"
      [] c = "exit" -> "tray_exit_launcher"
      [] c = "restart" -> "tray_restart_launcher"

\* the registry's entries as a traversal from the head sees them
Registry(S) == ListFrom(S.heap, S.head)

\* the control surface acts after launch: main() is past run_game_process()
Launched == \A i \in DOMAIN stk["main"] : stk["main"][i].op # "run_game_process"

\* tray_wnd_proc, WM_COMMAND: the message loop hands a menu command to its handler
tray_wnd_proc(c) ==
    /\ Running
    /\ stk["tray"] = <<>>
    /\ Launched
    /\ trayCmds < MaxTrayCmds
    /\ Becomes([Push(St, "tray", <<F(HandlerOf(c))>>) EXCEPT
                   !.cmds = @ + 1, !.hist.trayOp = c])

\* tray_stop_game up to execute_sequence(G_CONFIG.exit_sequence, 1)
tray_stop_game ==
    /\ At("tray", "tray_stop_game")
    /\ LET S == Popped("tray")
           S1 == [S EXCEPT !.hist.stop =
                     [@ EXCEPT !.phase = "seq", !.log = <<>>, !.kills = 0,
                               !.second = (@ \/ S.hist.stop.n > 0),
                               !.pre = (@ \/ (S.game.hProcess # NULL
                                              /\ Alive(S.procs, S.game.dwProcessId)))]]
       IN  Becomes(StartSequence(Push(NoteExit(S1), "tray", <<F("stop_terminate")>>),
                                 "tray", S.cfg.exit_sequence, TRUE))

\* tray_stop_game: if (hProcess) terminate_process_tree(dwProcessId)
stop_terminate ==
    /\ At("tray", "stop_terminate")
    /\ LET S == Popped("tray")
       IN  Becomes(IF S.game.hProcess # NULL
                   THEN Push([S EXCEPT
                                 !.procs = terminate_process_tree(@, S.game.dwProcessId),
                                 !.hist.stop.phase = "close",
                                 !.hist.stop.kills = 1,
                                 !.hist.stop.tree = SnapshotTree(S.procs, S.game.dwProcessId)],
                             "tray", <<F("stop_close")>>)
                   ELSE [S EXCEPT !.hist.stop.phase = "done"])

\* tray_stop_game: CloseHandle twice, ZeroMemory(&G_GAME_PROCESS_INFO)
stop_close ==
    /\ At("tray", "stop_close")
    /\ LET S == Popped("tray")
       IN  Becomes([S EXCEPT !.procs = CloseHandle(@, S.game.hProcess),
                             !.game = ZeroPI,
                             !.hist.stop.phase = "done",
                             !.hist.stop.n = Min(@ + 1, 2)])

\* TerminateProcess on a handle: nothing happens once the handle is closed
TerminateByHandle(P, h) ==
    IF h \in DOMAIN P /\ P[h].closes = 0 THEN TerminateProcess(P, h) ELSE P

\* tray_kill_all up to TerminateProcess(G_GAME_PROCESS_INFO.hProcess, 0)
tray_kill_all ==
    /\ At("tray", "tray_kill_all")
    /\ LET S == Popped("tray")
           h == S.game.hProcess
           live == h # NULL /\ Alive(S.procs, S.game.dwProcessId)
           helpers == {S.heap[n].pid : n \in SeqRange(Registry(S))}
           S1 == [S EXCEPT
                    !.hist.killPre = live /\ Cardinality(helpers) = 2
                                     /\ \A q \in helpers : Alive(S.procs, q),
                    !.hist.killTree = IF live THEN Descendants(S.procs, h) ELSE {}]
           rest == <<F("kill_list"), F("ensure_cleanup"), F("tray_exit_launcher")>>
       IN  Becomes(IF h # NULL
                   THEN Push([S1 EXCEPT !.procs = TerminateByHandle(@, h)],
                             "tray", <<F("kill_close")>> \o rest)
                   ELSE Push(S1, "tray", rest))

\* tray_kill_all: CloseHandle twice, ZeroMemory(&G_GAME_PROCESS_INFO)
kill_close ==
    /\ At("tray", "kill_close")
    /\ LET S == Popped("tray")
       IN  Becomes([S EXCEPT !.procs = CloseHandle(@, S.game.hProcess),
                             !.game = ZeroPI,
                             !.hist.killHandled = TRUE])

\* tray_kill_all: action_kill_process_list()
kill_list ==
    /\ At("tray", "kill_list")
    /\ Becomes(action_kill_process_list(Popped("tray")))

\* tray_exit_launcher: tray_stop_game(); tray_cleanup(); ExitProcess(0)
tray_exit_launcher ==
    /\ At("tray", "tray_exit_launcher")
    /\ Becomes(Push(Popped("tray"), "tray", <<F("tray_stop_game"), F("ExitProcess")>>))

\* tray_exit_launcher: tray_cleanup(); ExitProcess(0)
ExitProcess ==
    /\ At("tray", "ExitProcess")
    /\ Becomes(EndProcess(Popped("tray"), "exit"))

\* tray_restart_launcher
tray_restart_launcher ==
    /\ At("tray", "tray_restart_launcher")
    /\ LET S == Popped("tray")
       IN  Becomes(IF Len(S.cfg.lnk_path) > 0
                   THEN Push(S, "tray", <<F("tray_stop_game"), F("restart_shell"),
                                          F("tray_exit_launcher")>>)
                   ELSE S)

\* tray_restart_launcher: ShellExecuteA(NULL, "open", lnk_path, ...)
restart_shell ==
    /\ At("tray", "restart_shell")
    /\ Becomes([Popped("tray") EXCEPT !.hist.restarted = TRUE])

(***************************************************************************)
(* The other processes: they exit, and start children, on their own.       *)
(***************************************************************************)
Started == {p \in DOMAIN procs : p > 2}

process_exits(p) ==
    /\ Running
    /\ Alive(procs, p)
    /\ hist.exits < MaxExits
    /\ Becomes([St EXCEPT !.procs = TerminateProcess(@, p),
                          !.hist.exits = @ + 1])

process_forks(p) ==
    /\ Running
    /\ Alive(procs, p)
    /\ Len(procs) < MaxProcs
    /\ hist.forks < MaxForks
    /\ Becomes([St EXCEPT !.procs = CreateProcess(@, <<"c">>, p),
                          !.hist.forks = @ + 1])

(***************************************************************************)
(* The run of one launcher.                                                *)
(***************************************************************************)
Process(ppid, name, alive) ==
    [ppid |-> ppid, name |-> name, alive |-> alive, closes |-> 0, terms |-> 0]

hist0 ==
    [exit |-> "", ub |-> FALSE, cleanups |-> 0, saw |-> "", tracked |-> {},
     linked |-> {}, primary |-> 0, trayOp |-> "", forks |-> 0, exits |-> 0,
     killDisp |-> FALSE, killPre |-> FALSE, killTree |-> {}, killHandled |-> FALSE,
     restarted |-> FALSE, exitEarly |-> FALSE, exitRuns |-> 0, byName |-> {}, dispatched |-> FALSE,
     stop |-> [phase |-> "idle", log |-> <<>>, kills |-> 0, n |-> 0, pre |-> FALSE,
               second |-> FALSE, tree |-> {}]]

LockInit ==
    /\ inst = <<>>
    /\ lockFile = NoFile

\* no function is being called
NoCall == [op |-> "none"]

RunInit ==
    /\ \E old \in {"nofile", "unreadable", "dead", "alive"} :
          /\ procs = <<Process(0, <<"L">>, TRUE), Process(0, <<"L">>, old = "alive")>>
          /\ pidFile = CASE old = "nofile" -> NoFile
                         [] old = "unreadable" -> Unreadable
                         [] OTHER -> 2
    /\ taskbarVisible = TRUE
    /\ G_CONFIG = ZeroConfig
    /\ G_GAME_PROCESS_INFO = ZeroPI
    /\ G_TRACKED_PROCESSES = NULL
    /\ heap = <<>>
    /\ freed = {}
    /\ G_BORDERLESS_PROCESS = NULL
    /\ G_TASKBAR_WAS_HIDDEN = FALSE
    /\ stk = [t \in Threads |-> IF t = "main" THEN MainProgram ELSE <<>>]
    /\ trayCmds = 0
    /\ hist = hist0

Init == RunInit /\ LockInit /\ call = NoCall

Next ==
    \/ main_check_instances
    \/ load_configuration
    \/ launch_sequence
    \/ run_game_process
    \/ wait_game
    \/ wait_primary
    \/ close_primary
    \/ exit_sequence
    \/ main_return
    \/ \E t \in Threads :
          \/ execute_sequence(t)
          \/ run_process_wait_returns(t)
          \/ add_tracked_process_link(t)
          \/ kill_controller_mapper_close(t)
          \/ ensure_cleanup(t)
          \/ kill_all_tracked_processes(t)
          \/ free_tracked_processes(t)
          \/ cleanup_tail(t)
    \/ \E c \in TrayCommands : tray_wnd_proc(c)
    \/ tray_stop_game
    \/ stop_terminate
    \/ stop_close
    \/ tray_kill_all
    \/ kill_close
    \/ kill_list
    \/ tray_exit_launcher
    \/ ExitProcess
    \/ tray_restart_launcher
    \/ restart_shell
    \/ \E p \in Started : process_exits(p)
    \/ \E p \in Started : process_forks(p)

Spec == Init /\ [][Next]_vars


(***************************************************************************)
(* Several launchers started on one directory: check_instances step by     *)
(* step, each instance a process whose pid is its index in inst.           *)
(***************************************************************************)
MaxInstances == 3   \* launcher processes started on the directory

\* the process table as the instances see it
InstanceTable == [i \in DOMAIN inst |-> [alive |-> inst[i].pc # "ended"]]

Instance(pc, old) == [pc |-> pc, old |-> old]

At2(i, pc) == i \in DOMAIN inst /\ inst[i].pc = pc

Goes(i, pc, old) ==
    /\ inst' = [inst EXCEPT ![i] = Instance(pc, old)]
    /\ UNCHANGED <<runVars, call>>

\* a launcher is started on the directory
instance_starts ==
    /\ Len(inst) < MaxInstances
    /\ inst' = Append(inst, Instance("fopen", 0))
    /\ UNCHANGED <<lockFile, runVars, call>>

\* check_instances: fopen(G_PID_FILE, "r") and fscanf(pid_file, "%lu", &old_pid)
lock_fopen(i) ==
    /\ At2(i, "fopen")
    /\ IF lockFile = NoFile \/ lockFile = Unreadable
       THEN Goes(i, "write", 0)
       ELSE Goes(i, "query", lockFile)
    /\ UNCHANGED lockFile

\* check_instances: OpenProcess and GetExitCodeProcess on old_pid
lock_query(i) ==
    /\ At2(i, "query")
    /\ IF InstanceRunning(InstanceTable, inst[i].old)
       THEN Goes(i, "refused", inst[i].old)
       ELSE Goes(i, "write", inst[i].old)
    /\ UNCHANGED lockFile

\* write_pid_file: fopen(G_PID_FILE, "w") leaves the file empty
lock_truncate(i) ==
    /\ At2(i, "write")
    /\ lockFile' = Unreadable
    /\ Goes(i, "fprintf", inst[i].old)

\* write_pid_file: fprintf and fclose; check_instances returns TRUE
lock_fprintf(i) ==
    /\ At2(i, "fprintf")
    /\ lockFile' = write_pid_file(i)
    /\ Goes(i, "holds", inst[i].old)

\* main: check_instances returned FALSE, return 1
lock_refused(i) ==
    /\ At2(i, "refused")
    /\ Goes(i, "ended", inst[i].old)
    /\ UNCHANGED lockFile

\* the run ends through ensure_cleanup: cleanup_pid_file, then the process ends
lock_release(i) ==
    /\ At2(i, "holds")
    /\ lockFile' = cleanup_pid_file
    /\ Goes(i, "ended", inst[i].old)

\* the process ends without ensure_cleanup: the PID file stays behind
lock_abandon(i) ==
    /\ At2(i, "holds")
    /\ Goes(i, "ended", inst[i].old)
    /\ UNCHANGED lockFile

LockNext ==
    \/ instance_starts
    \/ \E i \in DOMAIN inst : lock_fopen(i)
    \/ \E i \in DOMAIN inst : lock_query(i)
    \/ \E i \in DOMAIN inst : lock_truncate(i)
    \/ \E i \in DOMAIN inst : lock_fprintf(i)
    \/ \E i \in DOMAIN inst : lock_refused(i)
    \/ \E i \in DOMAIN inst : lock_release(i)
    \/ \E i \in DOMAIN inst : lock_abandon(i)

\* no launcher has run on the directory yet
InitLock == Init /\ pidFile = NoFile

SpecLock == InitLock /\ [][LockNext]_vars


(***************************************************************************)
(* The properties.                                                         *)
(***************************************************************************)
\* the launcher process has ended by return from main or by ExitProcess
Ended == ~Running /\ hist.exit \in {"return", "exit"}

\* C1: in a run that passed the instance-lock check, the body of
\* ensure_cleanup is executed at most once, also when tray_kill_all's cleanup
\* is followed by the main thread's final cleanup.
C1_CleanupRunsOnce == hist.cleanups <= 1

\* C2: once the launcher has ended by return or ExitProcess, every helper that
\* was spawned without wait and registered, and every descendant of one, is dead.
C2_HelpersTornDown ==
    Ended => \A pid \in hist.tracked : TreeDead(procs, pid)

\* the instances for which check_instances returned TRUE and which still run
Holders == {i \in DOMAIN inst : inst[i].pc = "holds"}

\* C3: under every interleaving of the steps of check_instances of the
\* instances started on one directory, at most one live instance has had
\* check_instances return TRUE and not yet released the lock.
C3_OneLiveOwner == Cardinality(Holders) <= 1

\* C4: check_instances returns TRUE and writes the current pid when there is no
\* PID file; returns FALSE and leaves the file as it is when the stored pid is
\* of a live process; returns TRUE and overwrites the file with the current pid
\* when the stored process is dead or the content is no readable integer.
C4_CheckInstances ==
    [][At("main", "check_instances") =>
          LET found == Saw(procs, pidFile)
              refused == ~Alive(procs', LauncherPid) /\ hist'.exit = "refused"
              proceeds == Alive(procs', LauncherPid) /\ stk'["main"] = Tail(stk["main"])
          IN  IF found = "alive"
              THEN refused /\ pidFile' = pidFile
              ELSE proceeds /\ pidFile' = LauncherPid]_vars

\* check_instances has just reclaimed the lock of a dead instance
C4_StaleLockReclaimed ==
    /\ hist.saw = "dead"
    /\ Running
    /\ pidFile = LauncherPid
    /\ At("main", "load_configuration")

\* C5: when tray_kill_all started with two tracked helpers alive and a live,
\* handle-tracked primary, then at the end of the launcher the registry is
\* empty, the helpers and the primary are dead and the PID file is removed.
C5_KillLeavesNothing ==
    (hist.killPre /\ Ended) =>
        /\ G_TRACKED_PROCESSES = NULL
        /\ \A pid \in hist.tracked : ~Alive(procs, pid)
        /\ ~Alive(procs, hist.primary)
        /\ pidFile = NoFile

\* a node that was linked into the registry, is not freed, and is not reached
\* from the head any more
Lost(n) ==
    /\ n \in hist.linked
    /\ n \notin freed
    /\ n \notin SeqRange(ListFrom(heap, G_TRACKED_PROCESSES))
    /\ \A t \in Threads : \A i \in DOMAIN stk[t] :
          ~(stk[t][i].op = "kill_controller_mapper_close" /\ stk[t][i].n = n)

\* C6: under every interleaving of the tray handlers with the main thread, no
\* tracked process is terminated or has its handle closed more than once, no
\* registry node is read after it was freed, and no linked node is lost.
C6_RegistrySerialized ==
    /\ \A pid \in hist.tracked : procs[pid].terms <= 1 /\ procs[pid].closes <= 1
    /\ ~hist.ub
    /\ \A n \in DOMAIN heap : ~Lost(n)

\* C7: the handle of the primary process is closed at most once in a run.
C7_PrimaryHandleClosedOnce ==
    hist.primary # 0 => procs[hist.primary].closes <= 1

\* C8: after tray_kill_all has handled a live, handle-tracked primary, neither
\* the primary nor any of the processes descending from it is alive.
C8_KillTakesTheTree ==
    hist.killHandled => \A q \in hist.killTree : ~Alive(procs, q)

\* C9: from the start of tray_kill_all to the end of the launcher, the kill
\* handler dispatches no action of a sequence.
C9_KillDispatchesNothing == ~hist.killDisp

\* what a run of the exit sequence with is_exit = true dispatches
ExitDispatches ==
    LET toks == SequenceTokens(G_CONFIG.exit_sequence)
    IN  [i \in 1..Len(toks) |-> [action |-> toks[i], ex |-> TRUE]]

C11_StopEndsElevatedPrimary ==
    (hist.stop.phase = "done" /\ G_CONFIG.run_as_admin /\ hist.primary # 0) =>
        ~Alive(procs, hist.primary)

\* C12: in a run without tray requests, no action of the exit sequence is
\* dispatched while a successfully launched primary is still running.
C12_ExitAfterPrimary == trayCmds = 0 => ~hist.exitEarly

\* C13: the exit sequence is executed at most once between the lock check
\* and the end of the launcher.
C13_ExitSequenceOnce == hist.exitRuns <= 1


(***************************************************************************)
(* execute_sequence called on a string: the tokens it dispatches.          *)
(***************************************************************************)
MaxLen == 4     \* symbols in a sequence string

Symbols == {",", " ", "\t", "a", "b"}

Strings == UNION {[1..n -> Symbols] : n \in 0..MaxLen}

SeqCall(str, ex, pc, toks, log) ==
    [op |-> "execute_sequence", str |-> str, ex |-> ex, pc |-> pc,
     toks |-> toks, log |-> log]

InitSeq ==
    /\ RunInit /\ pidFile = NoFile
    /\ LockInit
    /\ \E str \in Strings, ex \in BOOLEAN : call = SeqCall(str, ex, "start", <<>>, <<>>)

\* execute_sequence up to its loop: the tokens that will reach execute_action
seq_start ==
    /\ call.pc = "start"
    /\ call' = [call EXCEPT !.pc = "loop", !.toks = SequenceTokens(call.str)]
    /\ UNCHANGED <<runVars, lockVars>>

\* one turn of the loop: execute_action(token, is_exit_sequence)
seq_dispatch ==
    /\ call.pc = "loop"
    /\ call.toks # <<>>
    /\ call' = [call EXCEPT !.toks = Tail(@),
                            !.log = Append(@, [action |-> Head(call.toks),
                                               ex |-> call.ex])]
    /\ UNCHANGED <<runVars, lockVars>>

\* strtok_s returned NULL: free(sequence_copy) and return
seq_return ==
    /\ call.pc = "loop"
    /\ call.toks = <<>>
    /\ call' = [call EXCEPT !.pc = "done"]
    /\ UNCHANGED <<runVars, lockVars>>

SeqNext == seq_start \/ seq_dispatch \/ seq_return

SpecSeq == InitSeq /\ [][SeqNext]_vars

\* the pieces of a string between its commas
RECURSIVE Pieces(_)
Pieces(s) ==
    LET commas == {i \in DOMAIN s : s[i] = ","}
    IN  IF commas = {} THEN <<s>>
        ELSE LET i == CHOOSE c \in commas : \A d \in commas : c <= d
             IN  <<SubSeq(s, 1, i - 1)>> \o Pieces(SubSeq(s, i + 1, Len(s)))

\* a piece without the white space around it
Trimmed(p) ==
    LET ink == {i \in DOMAIN p : ~IsSpace(p[i])}
    IN  IF ink = {} THEN <<>>
        ELSE SubSeq(p, CHOOSE i \in ink : \A j \in ink : i <= j,
                       CHOOSE i \in ink : \A j \in ink : i >= j)

\* the non-empty trimmed pieces of a string, left to right
Tokens(s) ==
    LET ps == Pieces(s)
    IN  SelectSeq([i \in DOMAIN ps |-> Trimmed(ps[i])], LAMBDA t : t # <<>>)

\* C14: execute_sequence dispatches exactly the non-empty, white-space-trimmed
\* tokens of the string, left to right, each with the given is_exit flag; an
\* empty or blank token is never passed to execute_action.
C14_DispatchesTrimmedTokens ==
    call.op = "execute_sequence" =>
        LET want == Tokens(call.str)
        IN  /\ Len(call.log) <= Len(want)
            /\ \A i \in DOMAIN call.log :
                  call.log[i] = [action |-> want[i], ex |-> call.ex]
            /\ \A i \in DOMAIN call.log : Trimmed(call.log[i].action) # <<>>
            /\ call.pc = "done" => Len(call.log) = Len(want)

\* a string with a leading comma, blanks around a token and an empty token
\* has been dispatched to its end
C14_TwoTokensDispatched ==
    /\ call.op = "execute_sequence"
    /\ call.pc = "done"
    /\ call.str = <<",", "a", " ", ",">>
    /\ call.log = <<[action |-> <<"a">>, ex |-> call.ex]>>


\* the actions execute_action knows by name
KnownActions ==
    {"Kill-Game", "Kill-List", "Controller-Mapper", "Monitor-Config", "No-TB",
     "Taskbar", "Borderless", "Cloud-Sync", "mount-disc", "Unmount-disc",
     "Pre1", "Pre2", "Pre3", "Post1", "Post2", "Post3",
     "JustAfterLaunch", "JustBeforeExit"}

Unknown(action) == \A w \in KnownActions : ~Is(action, w)

\* C15: a token execute_action does not know changes no process, registry,
\* taskbar or lock state, and the tokens after it remain to be dispatched.
C15_UnknownTokenSkipped ==
    [][\A t \in Threads :
          (At(t, "execute_sequence") /\ Unknown(Head(Top(t).toks))
             /\ execute_sequence(t)) =>
              /\ UNCHANGED <<procs, pidFile, taskbarVisible, G_CONFIG,
                             G_GAME_PROCESS_INFO, G_TRACKED_PROCESSES, heap, freed,
                             G_BORDERLESS_PROCESS, G_TASKBAR_WAS_HIDDEN, lockVars>>
              /\ stk'[t] = (IF Tail(Top(t).toks) = <<>> THEN <<>>
                            ELSE <<Fseq(Tail(Top(t).toks), Top(t).ex)>>)
                           \o Tail(stk[t])]_vars

\* the exit sequence "Bogus,Taskbar" has run to its end without a tray
\* request: the taskbar the launch sequence hid is visible again before the
\* cleanup starts
C15_TaskbarShownAfterBogus ==
    /\ G_CONFIG.exit_sequence = <<"Bogus", ",", "Taskbar">>
    /\ At("main", "ensure_cleanup")
    /\ trayCmds = 0
    /\ G_TASKBAR_WAS_HIDDEN
    /\ taskbarVisible


\* action_run_controller_mapper gets as far as run_process, and run_process
\* and the registration succeed
MapperLaunches ==
    /\ Len(G_CONFIG.controller_mapper_app) > 0 /\ Len(G_CONFIG.player1_profile) > 0
    /\ FileExists(G_CONFIG.controller_mapper_app)
    /\ FileExists(G_CONFIG.player1_profile)
    /\ CanCreate(St, G_CONFIG.controller_mapper_app) /\ CanTrack(St)

\* C16: "Controller-Mapper" dispatched with is_exit false launches the mapper
\* and registers it as "controller_mapper" and terminates, closes and removes
\* nothing; dispatched with is_exit true it launches and registers nothing,
\* terminates the registered mapper's tree, closes its handles and removes
\* its entry, or kills the mapper by executable name when no entry exists.
C16_MapperLaunchOrTeardown ==
    [][\A t \in Threads :
          /\ (At(t, "execute_sequence") /\ Is(Head(Top(t).toks), "Controller-Mapper")
                /\ execute_sequence(t) /\ ~hist'.ub) =>
                LET app == G_CONFIG.controller_mapper_app
                    tp == find_tracked_process(heap, G_TRACKED_PROCESSES,
                                               <<"controller_mapper">>)
                IN  IF ~Top(t).ex
                    THEN /\ SubSeq(procs', 1, Len(procs)) = procs
                         /\ freed' = freed
                         /\ G_TRACKED_PROCESSES' = G_TRACKED_PROCESSES
                         /\ MapperLaunches =>
                              /\ procs' = Append(procs,
                                     [ppid |-> LauncherPid, name |-> ImageName(app),
                                      alive |-> TRUE, closes |-> 0, terms |-> 0])
                              /\ heap' = Append(heap,
                                     [name |-> <<"controller_mapper">>,
                                      pid |-> Len(procs'),
                                      next |-> G_TRACKED_PROCESSES])
                              /\ Head(stk'[t]) = Fn("add_tracked_process", Len(heap'))
                    ELSE /\ Len(procs') = Len(procs)
                         /\ heap' = heap
                         /\ tp # NULL =>
                              /\ \A q \in SnapshotTree(procs, heap[tp].pid) :
                                     ~Alive(procs', q)
                              /\ Head(stk'[t]) = Fn("kill_controller_mapper_close", tp)
                         /\ tp = NULL =>
                              procs' = IF Len(app) > 0
                                       THEN kill_process_by_name(procs, Basename(app))
                                       ELSE procs
          /\ (At(t, "kill_controller_mapper_close")
                /\ kill_controller_mapper_close(t) /\ ~hist'.ub) =>
                LET tp == Top(t).n
                IN  /\ procs'[heap[tp].pid].closes =
                           Min(procs[heap[tp].pid].closes + 1, 2)
                    /\ tp \in freed'
                    /\ tp \notin SeqRange(ListFrom(heap', G_TRACKED_PROCESSES'))]_vars

\* without a tray request, the mapper the launch sequence started has been
\* terminated, closed once and taken out of the registry by the exit
\* sequence, which still has a token to dispatch
C16_MapperTornDownOnExit ==
    /\ trayCmds = 0 /\ ~hist.ub
    /\ At("main", "execute_sequence") /\ Top("main").ex
    /\ G_TRACKED_PROCESSES = NULL /\ freed # {}
    /\ \E p \in DOMAIN procs :
          /\ procs[p].name = ImageName(MapperPath)
          /\ ~procs[p].alive /\ procs[p].closes = 1 /\ procs[p].terms = 1


(***************************************************************************)
(* terminate_process_tree called on a process table, call by call.         *)
(***************************************************************************)
TreeSize == 4   \* processes in the table terminate_process_tree is called on

\* the tables of TreeSize processes: each one's parent is an older process or
\* a process outside the table, and any of them may have exited already
Tables ==
    {[p \in 1..TreeSize |->
         [ppid |-> pp[p], name |-> "x", alive |-> av[p], closes |-> 0, terms |-> 0]] :
       pp \in {f \in [1..TreeSize -> 0..TreeSize] : \A p \in 1..TreeSize : f[p] < p},
       av \in [1..TreeSize -> BOOLEAN]}

\* one call of terminate_process_tree(pid) on the C stack
TreeFrame(pid, pc, kids) == [pid |-> pid, pc |-> pc, kids |-> kids]

InitTree ==
    /\ RunInit /\ pidFile = NoFile
    /\ LockInit
    /\ \E P \in Tables, root \in 1..TreeSize :
          call = [op |-> "terminate_process_tree", P0 |-> P, P |-> P, root |-> root,
                  stack |-> <<TreeFrame(root, "snapshot", <<>>)>>, log |-> <<>>,
                  gone |-> {}]

\* a snapshot that is followed at once by the termination of pid
tree_first_pass_parent_first(c) ==
    LET f == Head(c.stack)
    IN  [c EXCEPT !.stack = <<TreeFrame(f.pid, "children", Children(c.P, f.pid))>>
                            \o Tail(@),
                  !.P = TerminateProcess(@, f.pid),
                  !.log = IF Alive(c.P, f.pid) THEN Append(@, f.pid) ELSE @]

\* first pass: child_pids[] from the snapshot
tree_first_pass(c) ==
    LET f == Head(c.stack)
    IN  [c EXCEPT !.stack = <<TreeFrame(f.pid, "children", Children(c.P, f.pid))>>
                            \o Tail(@)]

\* a loop that passes a child over instead of calling on it
tree_skip_child(c) ==
    LET f == Head(c.stack)
    IN  [c EXCEPT !.stack = <<TreeFrame(f.pid, "children", Tail(f.kids))>> \o Tail(@)]

\* terminate_process_tree(child_pids[i])
tree_recurse(c) ==
    LET f == Head(c.stack)
    IN  [c EXCEPT !.stack = <<TreeFrame(Head(f.kids), "snapshot", <<>>),
                              TreeFrame(f.pid, "children", Tail(f.kids))>> \o Tail(@)]

\* a call that gives the walk up when OpenProcess fails
tree_terminate_or_abort(c) ==
    LET f == Head(c.stack)
    IN  IF Alive(c.P, f.pid)
        THEN [c EXCEPT !.stack = Tail(@),
                       !.P = TerminateProcess(@, f.pid),
                       !.log = Append(@, f.pid)]
        ELSE [c EXCEPT !.stack = <<>>]

\* OpenProcess, TerminateProcess, return
tree_terminate(c) ==
    LET f == Head(c.stack)
    IN  [c EXCEPT !.stack = Tail(@),
                  !.P = TerminateProcess(@, f.pid),
                  !.log = IF Alive(c.P, f.pid) THEN Append(@, f.pid) ELSE @]

InTree(pc) == call.stack # <<>> /\ Head(call.stack).pc = pc

tree_snapshot ==
    /\ InTree("snapshot")
    /\ call' = tree_first_pass(call)
    /\ UNCHANGED <<runVars, lockVars>>

tree_child ==
    /\ InTree("children") /\ Head(call.stack).kids # <<>>
    /\ call' = tree_recurse(call)
    /\ UNCHANGED <<runVars, lockVars>>

tree_parent ==
    /\ InTree("children") /\ Head(call.stack).kids = <<>>
    /\ call' = tree_terminate(call)
    /\ UNCHANGED <<runVars, lockVars>>

TreeNext == tree_snapshot \/ tree_child \/ tree_parent

SpecTree == InitTree /\ [][TreeNext]_vars

\* C17: whenever terminate_process_tree has terminated a process, every
\* process the snapshot showed below it is already dead; the root is the last
\* process terminated; the call ends with the whole snapshot tree dead.
C17_ChildrenBeforeParent ==
    call.op = "terminate_process_tree" =>
        /\ \A i \in DOMAIN call.log :
              \A q \in SnapshotTree(call.P0, call.log[i]) : ~Alive(call.P, q)
        /\ \A i \in DOMAIN call.log : call.log[i] = call.root => i = Len(call.log)
        /\ (call.root \in SeqRange(call.log)) => Len(call.stack) <= 1
        /\ call.stack = <<>> =>
              /\ call.log = TreeOrder(call.P0, call.root)
              /\ \A q \in SnapshotTree(call.P0, call.root) : ~Alive(call.P, q)
              /\ \A q \in DOMAIN call.P :
                    call.P[q].alive = terminate_process_tree(call.P0, call.root)[q].alive

\* the call has returned on a chain of three live processes below the root's
\* parent: grandchild, child, root were terminated in that order
C17_ChainTerminated ==
    /\ call.op = "terminate_process_tree"
    /\ call.stack = <<>>
    /\ call.root = 2
    /\ call.log = <<4, 3, 2>>
    /\ Alive(call.P, 1)


(***************************************************************************)
(* The registry's functions called one after another by one thread.        *)
(***************************************************************************)
\* the names entries are registered under: the mapper's, and a generic
\* application's resolved path
RegNames == {<<"controller_mapper">>, Pre2Path}

RegImage(name) == IF name = <<"controller_mapper">> THEN MapperPath ELSE name

RegCall(last, name, pid, found, row, snap) ==
    [op |-> "registry", last |-> last, name |-> name, pid |-> pid,
     found |-> found, row |-> row, snap |-> snap]

Idle == Running /\ stk["main"] = <<>>

InitReg ==
    /\ procs = <<Process(0, <<"L">>, TRUE)>>
    /\ pidFile = LauncherPid
    /\ taskbarVisible = TRUE
    /\ G_CONFIG = [BaseConfig EXCEPT !.hide_taskbar = TRUE, !.borderless = <<"E">>,
                                     !.borderless_windowing_app = JbePath]
    /\ G_GAME_PROCESS_INFO = ZeroPI
    /\ G_TRACKED_PROCESSES = NULL
    /\ heap = <<>>
    /\ freed = {}
    /\ G_BORDERLESS_PROCESS = NULL
    /\ G_TASKBAR_WAS_HIDDEN = FALSE
    /\ stk = [t \in Threads |-> <<>>]
    /\ trayCmds = 0
    /\ hist = hist0
    /\ LockInit
    /\ call = RegCall("none", <<>>, 0, NULL, 0, procs)

\* run_process(cmd, NULL, FALSE, &pi) succeeded: add_tracked_process(name, &pi)
reg_add(name) ==
    /\ Idle
    /\ CanCreate(St, RegImage(name)) /\ CanTrack(St)
    /\ Assigns(add_tracked_process(
                   [St EXCEPT !.procs = CreateProcess(@, RegImage(name), LauncherPid)],
                   "main", name, NewPid(procs)))
    /\ call' = RegCall("add", name, NewPid(procs), NULL, 0, procs)
    /\ UNCHANGED lockVars

\* find_tracked_process(name)
reg_find(name) ==
    /\ Idle
    /\ call' = RegCall("find", name, 0,
                       find_tracked_process(heap, G_TRACKED_PROCESSES, name), 0, procs)
    /\ UNCHANGED <<runVars, lockVars>>

\* remove_tracked_process(name)
reg_remove(name) ==
    /\ Idle
    /\ \E S2 \in remove_tracked_process(St, name) : Assigns(S2)
    /\ call' = RegCall("remove", name, 0, NULL, 0, procs)
    /\ UNCHANGED lockVars

\* kill_all_tracked_processes()
reg_kill_all ==
    /\ Idle
    /\ Assigns(Push(St, "main",
                   (IF G_TRACKED_PROCESSES # NULL
                    THEN <<Fn("kill_all_tracked_processes", G_TRACKED_PROCESSES)>>
                    ELSE <<>>) \o <<F("free_tracked_processes")>>))
    /\ call' = RegCall("kill_all", <<>>, 0, NULL,
                       IF call.last = "kill_all" THEN 2 ELSE 1, procs)
    /\ UNCHANGED lockVars

\* action_hide_taskbar()
reg_hide_taskbar ==
    /\ Idle
    /\ taskbarVisible
    /\ Assigns(action_hide_taskbar(St))
    /\ call' = RegCall("hide", <<>>, 0, NULL, 0, procs)
    /\ UNCHANGED lockVars

\* action_run_borderless()
reg_run_borderless ==
    /\ Idle
    /\ G_BORDERLESS_PROCESS = NULL
    /\ CanCreate(St, G_CONFIG.borderless_windowing_app)
    /\ Assigns(action_run_borderless(St))
    /\ call' = RegCall("borderless", <<>>, 0, NULL, 0, procs)
    /\ UNCHANGED lockVars

\* ensure_cleanup(): the call remembers the state it starts from
reg_ensure_cleanup ==
    /\ Idle
    /\ Assigns(Push(St, "main", <<F("ensure_cleanup")>>))
    /\ call' = [op |-> "registry", last |-> "cleanup",
                row |-> IF call.last = "cleanup" THEN 2 ELSE 1, snap |-> procs,
                was |-> {heap[n].pid : n \in SeqRange(Registry(St))},
                bl |-> G_BORDERLESS_PROCESS, hidden |-> ~taskbarVisible]
    /\ UNCHANGED lockVars

RegNext ==
    \/ \E name \in RegNames : reg_add(name)
    \/ \E name \in RegNames : reg_find(name)
    \/ \E name \in RegNames : reg_remove(name)
    \/ reg_kill_all
    \/ reg_hide_taskbar
    \/ reg_run_borderless
    \/ reg_ensure_cleanup
    \/ ensure_cleanup("main")
    \/ cleanup_tail("main")
    \/ add_tracked_process_link("main")
    \/ kill_all_tracked_processes("main")
    \/ free_tracked_processes("main")

SpecReg == InitReg /\ [][RegNext]_vars

\* C18: after kill_all_tracked_processes has returned the registry is empty,
\* and a call that follows another one directly terminates no process and
\* closes no handle.
C18_KillAllIdempotent ==
    (call.op = "registry" /\ call.last = "kill_all" /\ Idle) =>
        /\ G_TRACKED_PROCESSES = NULL
        /\ call.row = 2 => procs = call.snap

\* the second of two calls in a row has returned, the first having
\* terminated and closed two registered processes
C18_SecondKillAllReturned ==
    /\ call.op = "registry" /\ call.last = "kill_all" /\ Idle
    /\ call.row = 2
    /\ Cardinality({p \in DOMAIN procs : procs[p].terms = 1 /\ procs[p].closes = 1}) = 2

\* C19: after add_tracked_process(name, h) has returned, find_tracked_process(name)
\* is the entry holding h; after remove_tracked_process(name) has returned,
\* find_tracked_process(name) is NULL.
C19_RoundTrip ==
    (call.op = "registry" /\ Idle) =>
        LET tp == find_tracked_process(heap, G_TRACKED_PROCESSES, call.name)
        IN  /\ call.last = "add" => tp # NULL /\ heap[tp].pid = call.pid
            /\ call.last = "remove" => tp = NULL


\* C20: no two entries of the registry have the same name.
C20_NamesUnique ==
    LET l == Registry(St)
    IN  \A i, j \in DOMAIN l : i # j => heap[l[i]].name # heap[l[j]].name


\* C21: no entry of the registry is of a process that a kill by name
\* (Kill-Game, Kill-List, the mapper's or the borderless helper's fallback)
\* has ended.
C21_EntriesNotKilledElsewhere ==
    \A n \in SeqRange(Registry(St)) : heap[n].pid \notin hist.byName


\* the configuration's launch sequence is "No-TB" and its exit sequence "Taskbar"
HidesAndShows ==
    /\ G_CONFIG.launch_sequence = <<"No-TB">>
    /\ G_CONFIG.exit_sequence = <<"Taskbar">>

\* the taskbar is hidden when main's launch sequence has run, and visible
\* when an exit sequence has run, on main or in the tray's stop
HiddenThenShown ==
    /\ At("main", "run_game_process") => ~taskbarVisible
    /\ At("main", "ensure_cleanup") => taskbarVisible
    /\ At("tray", "stop_terminate") => taskbarVisible

\* C22 as stated: with launch sequence "No-TB" and exit sequence "Taskbar",
\* in every configuration, the taskbar is hidden once the launch sequence has
\* run and visible once the exit sequence has run.
C22_HiddenInEveryConfiguration == HidesAndShows => HiddenThenShown

\* C22 amended: the same in every configuration whose hide_taskbar is set.
C22_HiddenThenShown ==
    (HidesAndShows /\ G_CONFIG.hide_taskbar) => HiddenThenShown

\* the taskbar this run hid is visible again after a tray stop ended the
\* primary and main's exit sequence ran
C22_ShownAfterStop ==
    /\ HidesAndShows /\ G_CONFIG.hide_taskbar
    /\ At("main", "ensure_cleanup")
    /\ hist.stop.n > 0 /\ hist.primary # 0
    /\ G_TASKBAR_WAS_HIDDEN /\ taskbarVisible


\* C23: when the launcher process has ended after check_instances returned
\* TRUE (return from main, ExitProcess, or the failure to load the
\* configuration), ensure_cleanup has run, a taskbar this run hid is visible,
\* the registry is empty and the PID file is deleted.
C23_CleanupOnEveryExit ==
    (~Running /\ hist.exit \in {"noconfig", "return", "exit"}) =>
        /\ hist.cleanups >= 1
        /\ G_TASKBAR_WAS_HIDDEN => taskbarVisible
        /\ G_TRACKED_PROCESSES = NULL
        /\ pidFile = NoFile


C25_RefusedWithoutEffects ==
    hist.exit = "refused" =>
        /\ ~Running
        /\ pidFile = 2
        /\ G_CONFIG = ZeroConfig
        /\ Len(procs) = 2
        /\ \A p \in DOMAIN procs : procs[p].terms = 0 /\ procs[p].closes = 0
        /\ Alive(procs, 2)
        /\ heap = <<>> /\ G_TRACKED_PROCESSES = NULL
        /\ G_BORDERLESS_PROCESS = NULL
        /\ taskbarVisible /\ ~G_TASKBAR_WAS_HIDDEN
        /\ ~hist.dispatched /\ hist.cleanups = 0

\* the launcher found the PID file of a running instance and has ended
C25_Refused == hist.exit = "refused" /\ hist.saw = "alive" /\ ~Running


\* C26: a launcher whose load_configuration failed has ended with no action
\* of a sequence dispatched, no process created, no registry node and the
\* taskbar untouched.
C26_NoConfigNothingStarted ==
    hist.exit = "noconfig" =>
        /\ ~Running
        /\ ~hist.dispatched
        /\ Len(procs) = 2
        /\ \A p \in DOMAIN procs : procs[p].terms = 0 /\ procs[p].closes = 0
        /\ heap = <<>> /\ G_TRACKED_PROCESSES = NULL
        /\ G_GAME_PROCESS_INFO = ZeroPI /\ G_BORDERLESS_PROCESS = NULL
        /\ taskbarVisible /\ ~G_TASKBAR_WAS_HIDDEN

\* the launcher took over a stale PID file, failed to load Game.ini and ended
C26_NoConfig == hist.exit = "noconfig" /\ ~Running /\ pidFile = LauncherPid /\ ~Alive(procs, 2)


\* the application a generic token runs
GenericApp(action) ==
    CASE Is(action, "Pre1") -> G_CONFIG.pre_launch_app_1
      [] Is(action, "Pre2") -> G_CONFIG.pre_launch_app_2
      [] Is(action, "Pre3") -> G_CONFIG.pre_launch_app_3
      [] Is(action, "Post1") -> G_CONFIG.post_launch_app_1
      [] Is(action, "Post2") -> G_CONFIG.post_launch_app_2
      [] Is(action, "Post3") -> G_CONFIG.post_launch_app_3
      [] Is(action, "JustAfterLaunch") -> G_CONFIG.just_after_launch_app
      [] Is(action, "JustBeforeExit") -> G_CONFIG.just_before_exit_app
      [] OTHER -> <<>>

\* the executable a spawning token hands to run_process, <<>> when the token
\* spawns nothing or its action returns before run_process
SpawnOf(action, ex) ==
    LET path == IF Is(action, "Controller-Mapper")
                THEN IF ~ex /\ Len(G_CONFIG.player1_profile) > 0
                        /\ FileExists(G_CONFIG.player1_profile)
                     THEN G_CONFIG.controller_mapper_app ELSE <<>>
                ELSE IF Is(action, "Borderless")
                THEN IF ~ex /\ G_CONFIG.borderless \in {<<"E">>, <<"K">>}
                     THEN G_CONFIG.borderless_windowing_app ELSE <<>>
                ELSE resolve_path(G_CONFIG, GenericApp(action))
    IN  IF path # <<>> /\ FileExists(path) THEN path ELSE <<>>

\* C27: a spawning action whose process the OS refuses to create leaves the
\* process table, the registry and the borderless handle unchanged, and the
\* tokens after it remain to be dispatched.
C27_SpawnFailureSkipped ==
    [][\A t \in Threads :
          (/\ At(t, "execute_sequence")
           /\ SpawnOf(Head(Top(t).toks), Top(t).ex) # <<>>
           /\ ~CanCreate(St, SpawnOf(Head(Top(t).toks), Top(t).ex))
           /\ execute_sequence(t)) =>
              /\ UNCHANGED <<procs, G_TRACKED_PROCESSES, heap, freed,
                             G_BORDERLESS_PROCESS>>
              /\ stk'[t] = (IF Tail(Top(t).toks) = <<>> THEN <<>>
                            ELSE <<Fseq(Tail(Top(t).toks), Top(t).ex)>>)
                           \o Tail(stk[t])]_vars

\* Pre1, Controller-Mapper and Borderless could not be started; the launch
\* sequence went on to Pre2, whose helper is the registry's only entry
C27_LaterTokenDispatched ==
    /\ G_CONFIG.pre_launch_app_1 = NoAppPath
    /\ At("main", "run_game_process")
    /\ G_BORDERLESS_PROCESS = NULL
    /\ Len(heap) = 1 /\ G_TRACKED_PROCESSES = 1 /\ heap[1].name = Pre2Path
    /\ Alive(procs, heap[1].pid)


\* the wait option of the application a generic token runs
GenericWait(action) ==
    CASE Is(action, "Pre1") -> G_CONFIG.pre_launch_app_1_wait
      [] Is(action, "Pre2") -> G_CONFIG.pre_launch_app_2_wait
      [] Is(action, "Pre3") -> G_CONFIG.pre_launch_app_3_wait
      [] Is(action, "Post1") -> G_CONFIG.post_launch_app_1_wait
      [] Is(action, "Post2") -> G_CONFIG.post_launch_app_2_wait
      [] Is(action, "Post3") -> G_CONFIG.post_launch_app_3_wait
      [] Is(action, "JustAfterLaunch") -> G_CONFIG.just_after_launch_wait
      [] Is(action, "JustBeforeExit") -> G_CONFIG.just_before_exit_wait
      [] OTHER -> FALSE

\* a generic token whose application exists and can be started is dispatched
GenericStarts(t) ==
    /\ At(t, "execute_sequence")
    /\ GenericApp(Head(Top(t).toks)) # <<>>
    /\ SpawnOf(Head(Top(t).toks), Top(t).ex) # <<>>
    /\ CanCreate(St, SpawnOf(Head(Top(t).toks), Top(t).ex))
    /\ execute_sequence(t)

\* C28: a generic application with wait set is started and the thread then
\* waits for it: no token is dispatched before the process has exited, its
\* handle is closed when the wait returns, and the registry is as before;
\* one without wait is registered under its resolved path with the thread
\* going on while the process runs. A thread waits only in its innermost
\* call.
C28_WaitBlocksNoWaitRegisters ==
    [][\A t \in Threads :
          LET action == Head(Top(t).toks)
              path == SpawnOf(action, Top(t).ex)
              new == Len(procs) + 1
          IN  /\ (GenericStarts(t) /\ GenericWait(action)) =>
                    /\ Alive(procs', new) /\ procs'[new].name = ImageName(path)
                    /\ Head(stk'[t]) = Fn("run_process_wait", new)
                    /\ UNCHANGED <<G_TRACKED_PROCESSES, heap, freed>>
              /\ (GenericStarts(t) /\ ~GenericWait(action) /\ CanTrack(St)) =>
                    /\ Alive(procs', new) /\ procs'[new].name = ImageName(path)
                    /\ heap' = Append(heap, [name |-> path, pid |-> new,
                                             next |-> G_TRACKED_PROCESSES])
                    /\ Head(stk'[t]) = Fn("add_tracked_process", Len(heap'))
              /\ (At(t, "run_process_wait") /\ run_process_wait_returns(t)) =>
                    /\ ~Alive(procs, Top(t).n)
                    /\ procs'[Top(t).n].closes = procs[Top(t).n].closes + 1
                    /\ UNCHANGED <<G_TRACKED_PROCESSES, heap, freed>>
              /\ \A i \in DOMAIN stk'[t] :
                    stk'[t][i].op = "run_process_wait" => i = 1]_vars

\* the launch sequence waited for Pre1, closed its handle and went on; the
\* registry is empty
C28_WaitedForPre1 ==
    /\ G_CONFIG.pre_launch_app_1_wait
    /\ At("main", "run_game_process")
    /\ heap = <<>>
    /\ \E p \in DOMAIN procs :
          procs[p].name = ImageName(resolve_path(G_CONFIG, Pre1Path))
          /\ ~procs[p].alive /\ procs[p].closes = 1 /\ procs[p].terms = 0


(***************************************************************************)
(* terminate_process_tree while processes it has listed exit by themselves. *)
(***************************************************************************)
\* the processes the calls on the stack were called with or hold in child_pids[]
Listed == UNION {{call.stack[i].pid} \cup SeqRange(call.stack[i].kids) :
                    i \in DOMAIN call.stack}

\* a listed process exits before the call gets to it
tree_listed_exits(q) ==
    /\ q \in Listed
    /\ Alive(call.P, q)
    /\ call' = [call EXCEPT !.P = TerminateProcess(@, q), !.gone = @ \cup {q}]
    /\ UNCHANGED <<runVars, lockVars>>

TreeRaceNext ==
    \/ tree_snapshot
    \/ tree_child
    \/ tree_parent
    \/ \E q \in 1..TreeSize : tree_listed_exits(q)

SpecTreeRace == InitTree /\ [][TreeRaceNext]_vars

\* C29: with listed processes exiting by themselves during the call,
\* whenever terminate_process_tree has terminated a process every process the
\* snapshot showed below it is dead, the root is terminated last, and the
\* call returns with the whole snapshot tree dead.
C29_RaceIgnored ==
    call.op = "terminate_process_tree" =>
        /\ \A i \in DOMAIN call.log :
              \A q \in SnapshotTree(call.P0, call.log[i]) : ~Alive(call.P, q)
        /\ \A i \in DOMAIN call.log : call.log[i] = call.root => i = Len(call.log)
        /\ call.stack = <<>> =>
              /\ \A q \in SnapshotTree(call.P0, call.root) : ~Alive(call.P, q)
              /\ \A q \in SnapshotTree(call.P0, call.root) :
                    Alive(call.P0, q) => q \in call.gone \/ q \in SeqRange(call.log)
              /\ \A q \in DOMAIN call.P :
                    q \notin SnapshotTree(call.P0, call.root) =>
                        call.P[q].alive = call.P0[q].alive

\* the call has returned; a child of the root exited by itself after it was
\* listed, and its own child and the root were terminated by the call
C29_ChildVanished ==
    /\ call.op = "terminate_process_tree"
    /\ call.stack = <<>>
    /\ call.root = 1
    /\ call.gone = {2}
    /\ call.P0[2].ppid = 1 /\ call.P0[3].ppid = 2
    /\ call.log = <<3, 1>>

(***************************************************************************)
(* kill_process_by_name called on a process table, entry by entry.         *)
(***************************************************************************)
SnapSize == 3   \* processes in the table kill_process_by_name is called on

\* szExeFile of the listed processes, and the names asked for
ExeNames == {<<"q">>, <<"Q">>, <<"g">>, <<"q", "q">>}
AskedNames == {<<"q">>, <<"Q">>}

\* the tables of SnapSize processes with these names
NameTables ==
    {[p \in 1..SnapSize |->
         [ppid |-> pp[p], name |-> nm[p], alive |-> av[p], closes |-> 0, terms |-> 0]] :
       pp \in {f \in [1..SnapSize -> 0..SnapSize] : \A p \in 1..SnapSize : f[p] < p},
       nm \in [1..SnapSize -> ExeNames],
       av \in [1..SnapSize -> BOOLEAN]}

InitName ==
    /\ RunInit /\ pidFile = NoFile
    /\ LockInit
    /\ \E P \in NameTables, name \in AskedNames :
          call = [op |-> "kill_process_by_name", P0 |-> P, P |-> P, name |-> name,
                  pc |-> "snapshot", snap |-> <<>>, i |-> 0]

\* hSnapshot = CreateToolhelp32Snapshot(TH32CS_SNAPPROCESS, 0); Process32First
name_snapshot ==
    /\ call.op = "kill_process_by_name" /\ call.pc = "snapshot"
    /\ call' = [call EXCEPT !.snap = call.P, !.i = 1, !.pc = "loop"]
    /\ UNCHANGED <<runVars, lockVars>>

\* one turn of the do-while: the entry is compared and its tree terminated
name_entry ==
    /\ call.op = "kill_process_by_name" /\ call.pc = "loop"
    /\ call.i <= Len(call.snap)
    /\ call' = [call EXCEPT
                  !.P = IF call.snap[call.i].alive
                           /\ stricmp_eq(call.snap[call.i].name, call.name)
                        THEN terminate_process_tree(@, call.i) ELSE @,
                  !.i = @ + 1]
    /\ UNCHANGED <<runVars, lockVars>>

\* Process32Next fails: CloseHandle(hSnapshot) and return
name_return ==
    /\ call.op = "kill_process_by_name" /\ call.pc = "loop"
    /\ call.i > Len(call.snap)
    /\ call' = [call EXCEPT !.pc = "returned"]
    /\ UNCHANGED <<runVars, lockVars>>

NameNext == name_snapshot \/ name_entry \/ name_return

SpecName == InitName /\ [][NameNext]_vars

\* a and b are the same string once 'A'..'Z' are read as 'a'..'z'
SameIgnoringCase(a, b) ==
    Len(a) = Len(b) /\ \A k \in 1..Len(a) : LowerChar(a[k]) = LowerChar(b[k])

\* the listed processes whose name is the one asked for, ignoring case
Matching == {q \in DOMAIN call.P0 :
                Alive(call.P0, q) /\ SameIgnoringCase(call.P0[q].name, call.name)}

\* C30: kill_process_by_name(name) takes one snapshot and calls
\* terminate_process_tree once on every listed process whose name equals name
\* ignoring ASCII case, so that each of them is dead with everything the
\* snapshot shows below it; a process that neither matches nor is below a
\* match is left as it was, and with no match the table is unchanged.
C30_KillsTreesOfMatches ==
    call.op = "kill_process_by_name" /\ call.pc = "returned" =>
        LET below == UNION {SnapshotTree(call.P0, q) : q \in Matching}
        IN  /\ call.snap = call.P0
            /\ \A q \in DOMAIN call.P :
                  call.P[q].terms = (IF q \in Matching THEN 1 ELSE 0)
            /\ \A q \in below : ~Alive(call.P, q)
            /\ \A q \in DOMAIN call.P :
                  q \notin below => call.P[q].alive = call.P0[q].alive
            /\ Matching = {} => call.P = call.P0
            /\ call.P = kill_process_by_name(call.P0, call.name)

\* "Q" was asked for: process 1 is q with a child g, process 3 another g;
\* 1 and 2 are dead and 3 lives
C30_OtherCaseKilled ==
    /\ call.op = "kill_process_by_name" /\ call.pc = "returned"
    /\ call.name = <<"Q">>
    /\ call.P0[1].name = <<"q">> /\ call.P0[1].alive
    /\ call.P0[2].name = <<"g">> /\ call.P0[2].alive /\ call.P0[2].ppid = 1
    /\ call.P0[3].name = <<"g">> /\ call.P0[3].alive /\ call.P0[3].ppid = 0
    /\ ~call.P[1].alive /\ ~call.P[2].alive /\ call.P[3].alive

(***************************************************************************)
(* terminate_process_tree on tables wider and deeper than child_pids[].    *)
(***************************************************************************)
Surplus == 2   \* children of the root beyond child_pids[]'s 256

FanWidth == FanOutCap + Surplus     \* the children of the root
FanProcs == 1 + FanWidth + 2        \* the root, its children, two more

\* the root 1 with FanWidth children 2 .. 1 + FanWidth, the third process
\* alive or not; a grandchild below the first child, the last child that
\* fits or the first that does not, and one more process below that
\* grandchild or below the last child
WideTables ==
    {[p \in 1..FanProcs |->
         [ppid |-> IF p = 1 THEN 0
                   ELSE IF p <= 1 + FanWidth THEN 1
                   ELSE IF p = FanProcs - 1 THEN a ELSE b,
          name |-> "x",
          alive |-> IF p = 1 THEN rootAlive ELSE IF p = 3 THEN thirdAlive ELSE TRUE,
          closes |-> 0, terms |-> 0]] :
       a \in {2, FanOutCap + 1, FanOutCap + 2},
       b \in {FanProcs - 1, 1 + FanWidth},
       rootAlive \in BOOLEAN, thirdAlive \in BOOLEAN}

\* a chain of FanProcs processes, each the only child of the one before it,
\* one of them possibly gone
DeepTables ==
    {[p \in 1..FanProcs |->
         [ppid |-> p - 1, name |-> "x", alive |-> p # dead,
          closes |-> 0, terms |-> 0]] :
       dead \in {0, 2, FanProcs}}

InitFan ==
    /\ RunInit /\ pidFile = NoFile
    /\ LockInit
    /\ \E P \in WideTables \cup DeepTables :
          call = [op |-> "terminate_process_tree", P0 |-> P, P |-> P, root |-> 1,
                  stack |-> <<TreeFrame(1, "snapshot", <<>>)>>, log |-> <<>>,
                  gone |-> {}]

SpecFan == InitFan /\ [][TreeNext]_vars

\* the live processes a snapshot of P lists with parent pid
LiveKids(P, pid) == {q \in DOMAIN P : P[q].alive /\ P[q].ppid = pid}

\* those of them that come among the first FanOutCap in snapshot order
FirstKids(P, pid) ==
    LET kids == LiveKids(P, pid)
    IN  {q \in kids : Cardinality({r \in kids : r < q}) < FanOutCap}

\* pid, its first FanOutCap children, their first FanOutCap children, ...
RECURSIVE CappedTree(_, _)
CappedTree(P, pid) ==
    {pid} \cup UNION {CappedTree(P, c) : c \in {q \in FirstKids(P, pid) : q > pid}}

Returned == call.op = "terminate_process_tree" /\ call.stack = <<>>

\* C31: when terminate_process_tree has returned, the live processes it
\* terminated are the root, the first 256 children of each terminated process
\* in snapshot order and what is below those; the children past the 256th
\* are alive with everything below them, the parent is terminated all the
\* same, and a chain of more than 256 generations is terminated as far as
\* it is unbroken.
C31_CapTruncatesWidthOnly ==
    /\ Returned /\ call.P0 \in WideTables =>
          LET reached == CappedTree(call.P0, call.root)
          IN  /\ \A q \in DOMAIN call.P :
                    call.P[q].alive = (call.P0[q].alive /\ q \notin reached)
              /\ SeqRange(call.log) = {q \in reached : call.P0[q].alive}
              /\ ~Alive(call.P, call.root)
              /\ \A p \in reached :
                    \A c \in LiveKids(call.P0, p) \ FirstKids(call.P0, p) :
                        \A q \in SnapshotTree(call.P0, c) : Alive(call.P, q)
    /\ Returned /\ call.P0 \in DeepTables =>
          /\ \A q \in DOMAIN call.P :
                call.P[q].alive =
                   (call.P0[q].alive /\ \E r \in 2..q : ~call.P0[r].alive)
          /\ (\A q \in DOMAIN call.P0 : call.P0[q].alive) => Len(call.log) > FanOutCap

\* the call has returned on a root with more than 256 live children: the
\* root and its 256th child are dead, the 257th child and the process below
\* it are alive
C31_SurplusChildAlive ==
    /\ call.op = "terminate_process_tree" /\ call.stack = <<>>
    /\ Len(call.P0) = FanProcs
    /\ Cardinality(LiveKids(call.P0, 1)) = FanWidth
    /\ call.P0[1].alive /\ ~call.P[1].alive
    /\ ~call.P[FanOutCap + 1].alive
    /\ call.P[FanOutCap + 2].alive
    /\ call.P0[FanProcs - 1].ppid = FanOutCap + 2 /\ call.P[FanProcs - 1].alive
    /\ call.P0[FanProcs].ppid = FanProcs - 1 /\ call.P[FanProcs].alive

(***************************************************************************)
(* The run-scoped flags.                                                   *)
(***************************************************************************)
\* a process handle on a borderless helper this run started is still open
HelperHeld ==
    \E p \in DOMAIN procs :
        /\ procs[p].name = ImageName(G_CONFIG.borderless_windowing_app)
        /\ procs[p].ppid = LauncherPid
        /\ procs[p].closes = 0

\* C32: in every state G_TASKBAR_WAS_HIDDEN is true exactly when the taskbar
\* is hidden by this run, and G_BORDERLESS_PROCESS is non-null exactly when
\* this run holds a borderless helper it launched.
C32_FlagsReflectOwnership ==
    /\ G_TASKBAR_WAS_HIDDEN = ~taskbarVisible
    /\ (G_BORDERLESS_PROCESS # NULL) = HelperHeld

(***************************************************************************)
(* terminate_process_tree on tables with any parent links: a pid that was  *)
(* given to a new process makes a process the recorded parent of an older  *)
(* one, of its own parent, or of itself.                                   *)
(***************************************************************************)
CycSize == 3    \* processes in such a table
MaxDepth == 5   \* calls of terminate_process_tree the C stack has room for

CycTables ==
    {[p \in 1..CycSize |->
         [ppid |-> pp[p], name |-> "x", alive |-> av[p], closes |-> 0, terms |-> 0]] :
       pp \in [1..CycSize -> 0..CycSize],
       av \in [1..CycSize -> BOOLEAN]}

InitCyc ==
    /\ RunInit /\ pidFile = NoFile
    /\ LockInit
    /\ \E P \in CycTables, root \in 1..CycSize :
          call = [op |-> "terminate_process_tree", P0 |-> P, P |-> P, root |-> root,
                  stack |-> <<TreeFrame(root, "snapshot", <<>>)>>, log |-> <<>>,
                  gone |-> {}]

\* the recursive call while the stack has room for its frame
cyc_child ==
    /\ Len(call.stack) < MaxDepth
    /\ tree_child

\* the recursive call that does not fit: the process ends in a stack
\* overflow and the call never returns
cyc_overflow ==
    /\ InTree("children") /\ Head(call.stack).kids # <<>>
    /\ Len(call.stack) >= MaxDepth
    /\ call' = [call EXCEPT !.stack = <<TreeFrame(Head(@).pid, "stack overflow",
                                                  Head(@).kids)>> \o Tail(@)]
    /\ UNCHANGED <<runVars, lockVars>>

CycNext == tree_snapshot \/ cyc_child \/ tree_parent \/ cyc_overflow

SpecCyc == InitCyc /\ [][CycNext]_vars

\* the call goes on as long as it has a step to take
SpecCycFair == SpecCyc /\ WF_vars(CycNext)

\* C33: terminate_process_tree(root) returns after finitely many steps on
\* every finite process table, whatever the recorded parent links are.
C33_AlwaysReturns == <>Returned

\* S and the listed processes whose recorded parent is in S, and theirs
RECURSIVE Closure(_, _)
Closure(P, S) ==
    LET T == S \cup {q \in DOMAIN P : P[q].alive /\ P[q].ppid \in S}
    IN  IF T = S THEN S ELSE Closure(P, T)

\* root and its transitive descendants by parent link among the listed
\* processes
LinkTree(P, root) == Closure(P, {root})

\* C34: on a table that does not change by itself, when
\* terminate_process_tree(root) has returned it has terminated every listed
\* process that is root or a transitive descendant of root by parent link,
\* each of them once, and no other process.
C34_ExactlyTheTree ==
    Returned /\ call.P0 \in CycTables =>
        LET tree == {q \in LinkTree(call.P0, call.root) : Alive(call.P0, q)}
        IN  /\ SeqRange(call.log) = tree
            /\ Len(call.log) = Cardinality(tree)
            /\ \A q \in tree : ~Alive(call.P, q)
            /\ \A q \in DOMAIN call.P :
                  q \notin tree => call.P[q].alive = call.P0[q].alive

\* the call has returned on a root 2 whose child 1 is older than it and has
\* the child 3: 3, 1 and 2 were terminated, each once
C34_ReusedPidTree ==
    /\ Returned /\ call.P0 \in CycTables
    /\ call.root = 2
    /\ call.P0[1].ppid = 2 /\ call.P0[2].ppid = 0 /\ call.P0[3].ppid = 1
    /\ call.log = <<3, 1, 2>>

(***************************************************************************)
(* Releasing the instance lock.                                            *)
(***************************************************************************)
\* C35: the PID file is deleted only by the cleanup of the instance whose pid
\* is stored in it, so that a live instance holding the lock never loses its
\* PID file through another instance's cleanup.
C35_ReleasesOwnLockOnly ==
    [][(lockFile # NoFile /\ lockFile' = NoFile) =>
           \E i \in DOMAIN inst :
               /\ lockFile = i
               /\ inst[i].pc = "holds" /\ inst'[i].pc = "ended"]_vars

(***************************************************************************)
(* Tray "Restart": the launcher that holds the lock starts its successor   *)
(* and goes on to its own exit while the successor checks the lock.        *)
(***************************************************************************)

\* the first launcher is started on a directory with no PID file, or with
\* one that an earlier run left empty; call.by holds the pairs of a launcher
\* started by a restart and the launcher that restarted it
InitRestart ==
    /\ RunInit /\ pidFile = NoFile
    /\ inst = <<Instance("fopen", 0)>>
    /\ lockFile \in {NoFile, Unreadable}
    /\ call = [op |-> "tray_restart_launcher", by |-> {}]

\* tray_restart_launcher: tray_stop_game, then ShellExecuteA on the link
restart_shell_execute(i) ==
    /\ At2(i, "holds")
    /\ Len(inst) < MaxInstances
    /\ inst' = Append([inst EXCEPT ![i] = Instance("tray_exit_launcher", inst[i].old)],
                      Instance("fopen", 0))
    /\ call' = [call EXCEPT !.by = @ \cup {<<Len(inst) + 1, i>>}]
    /\ UNCHANGED <<lockFile, runVars>>

\* tray_exit_launcher: tray_stop_game
restart_stop_game(i) ==
    /\ At2(i, "tray_exit_launcher")
    /\ Goes(i, "tray_cleanup", inst[i].old)
    /\ UNCHANGED lockFile

\* tray_exit_launcher: tray_cleanup
restart_tray_cleanup(i) ==
    /\ At2(i, "tray_cleanup")
    /\ Goes(i, "ExitProcess", inst[i].old)
    /\ UNCHANGED lockFile

\* tray_exit_launcher: ExitProcess(0); the PID file stays as it is
restart_exit_process(i) ==
    /\ At2(i, "ExitProcess")
    /\ Goes(i, "ended", inst[i].old)
    /\ UNCHANGED lockFile

RestartNext ==
    \/ instance_starts
    \/ \E i \in DOMAIN inst : restart_shell_execute(i)
    \/ \E i \in DOMAIN inst : restart_stop_game(i)
    \/ \E i \in DOMAIN inst : restart_tray_cleanup(i)
    \/ \E i \in DOMAIN inst : restart_exit_process(i)
    \/ \E i \in DOMAIN inst : lock_fopen(i)
    \/ \E i \in DOMAIN inst : lock_query(i)
    \/ \E i \in DOMAIN inst : lock_truncate(i)
    \/ \E i \in DOMAIN inst : lock_fprintf(i)
    \/ \E i \in DOMAIN inst : lock_refused(i)
    \/ \E i \in DOMAIN inst : lock_release(i)
    \/ \E i \in DOMAIN inst : lock_abandon(i)

SpecRestart == InitRestart /\ [][RestartNext]_vars

\* C36: under every interleaving of the successor's lock check with the
\* steps the restarting launcher has left up to ExitProcess, check_instances
\* of the successor returns TRUE: a launcher started by a restart is never
\* refused on finding the pid of the launcher that restarted it.
C36_SuccessorProceeds ==
    call.op = "tray_restart_launcher" =>
        \A sp \in call.by :
            ~(inst[sp[1]].pc = "refused" /\ inst[sp[1]].old = sp[2])

(***************************************************************************)
(* The run of one launcher with no request from the tray.                  *)
(***************************************************************************)
\* the steps of the main thread
MainNext ==
    \/ main_check_instances
    \/ load_configuration
    \/ launch_sequence
    \/ run_game_process
    \/ wait_game
    \/ wait_primary
    \/ close_primary
    \/ exit_sequence
    \/ main_return
    \/ execute_sequence("main")
    \/ run_process_wait_returns("main")
    \/ add_tracked_process_link("main")
    \/ kill_controller_mapper_close("main")
    \/ ensure_cleanup("main")
    \/ kill_all_tracked_processes("main")
    \/ free_tracked_processes("main")
    \/ cleanup_tail("main")

\* the process main is blocked on in WaitForSingleObject(..., INFINITE)
WaitedFor ==
    IF At("main", "wait_primary") \/ At("main", "run_process_wait")
    THEN {Top("main").n} ELSE {}

\* the process main waits on exits
waited_process_exits ==
    /\ Running
    /\ \E p \in WaitedFor :
          /\ Alive(procs, p)
          /\ Becomes([St EXCEPT !.procs = TerminateProcess(@, p)])

QuietNext ==
    \/ MainNext
    \/ waited_process_exits
    \/ \E p \in Started : process_exits(p)
    \/ \E p \in Started : process_forks(p)

\* the main thread runs on, and every process it waits on exits in the end
SpecQuiet ==
    Init /\ [][QuietNext]_vars /\ WF_vars(MainNext) /\ WF_vars(waited_process_exits)

\* main has returned 0 after ensure_cleanup, the registry is empty and the
\* PID file is removed
FinishedClean ==
    /\ ~Running /\ hist.exit = "return"
    /\ stk["main"] = <<>>
    /\ hist.cleanups >= 1
    /\ SequenceTokens(G_CONFIG.exit_sequence) # <<>> => hist.exitRuns >= 1
    /\ G_TRACKED_PROCESSES = NULL
    /\ pidFile = NoFile

\* C37: in a run without tray requests in which every process main waits on
\* exits in the end, once the configuration is loaded main runs the launch
\* sequence, the game, the exit sequence and ensure_cleanup and returns 0
\* with the registry empty and the PID file removed.
C37_QuietRunFinishes == At("main", "launch_sequence") ~> FinishedClean

\* a run with an elevated primary and a waited helper has finished; the
\* primary, which main could not wait on, is still running
C37_ElevatedRunFinished ==
    /\ FinishedClean
    /\ trayCmds = 0
    /\ G_CONFIG.run_as_admin
    /\ G_CONFIG.pre_launch_app_1_wait
    /\ Alive(procs, hist.primary)

(***************************************************************************)
(* The borderless helper at the end of the run.                            *)
(***************************************************************************)
\* thread t dispatches "Borderless" with is_exit set
BorderlessExit(t) ==
    /\ At(t, "execute_sequence")
    /\ Is(Head(Top(t).toks), "Borderless") /\ Top(t).ex
    /\ execute_sequence(t)

\* the listed processes with the helper's executable name, and what a
\* snapshot shows below them
HelpersByName ==
    UNION {SnapshotTree(procs, q) :
             q \in {r \in DOMAIN procs :
                      /\ Alive(procs, r)
                      /\ SameIgnoringCase(procs[r].name,
                                          Basename(G_CONFIG.borderless_windowing_app))}}

\* the processes in Q are dead after the step and the others are as before
Terminates(Q) ==
    \A q \in DOMAIN procs :
        procs'[q].alive = (procs[q].alive /\ q \notin Q)

\* C38: "Borderless" dispatched with is_exit set changes neither the process
\* table nor the held handle unless terminate_borderless_on_exit is set; when
\* it is set the helper's tree is terminated by the held handle, which is then
\* cleared, or else by executable name. ensure_cleanup closes a handle that is
\* still held and terminates nothing, and the end of the launcher leaves the
\* other processes as they are: the helper outlives the launcher.
C38_HelperKeptUnlessConfigured ==
    [][\A t \in Threads :
          /\ (BorderlessExit(t) /\ ~G_CONFIG.terminate_borderless_on_exit) =>
                UNCHANGED <<procs, G_BORDERLESS_PROCESS, G_TRACKED_PROCESSES, heap,
                            freed, taskbarVisible, pidFile>>
          /\ (BorderlessExit(t) /\ G_CONFIG.terminate_borderless_on_exit
                /\ G_BORDERLESS_PROCESS # NULL) =>
                /\ Terminates(SnapshotTree(procs, G_BORDERLESS_PROCESS))
                /\ G_BORDERLESS_PROCESS' = NULL
          /\ (BorderlessExit(t) /\ G_CONFIG.terminate_borderless_on_exit
                /\ G_BORDERLESS_PROCESS = NULL) =>
                /\ Terminates(HelpersByName)
                /\ G_BORDERLESS_PROCESS' = NULL
          /\ (At(t, "cleanup_tail") /\ cleanup_tail(t) /\ G_BORDERLESS_PROCESS # NULL) =>
                /\ Terminates({})
                /\ procs'[G_BORDERLESS_PROCESS].closes >= 1
                /\ G_BORDERLESS_PROCESS' = NULL
          /\ (Running /\ ~Running') => Terminates({LauncherPid})]_vars

\* the launcher has returned from a run whose exit sequence dispatched
\* "Borderless" without terminate_borderless_on_exit: the helper it started
\* is alive and its handle is closed
C38_HelperOutlivesLauncher ==
    /\ Ended /\ hist.exit = "return"
    /\ ~G_CONFIG.terminate_borderless_on_exit
    /\ G_CONFIG.exit_sequence = <<"Borderless">>
    /\ hist.exitRuns >= 1
    /\ G_BORDERLESS_PROCESS = NULL
    /\ \E p \in DOMAIN procs :
          /\ procs[p].name = ImageName(BorderlessPath)
          /\ procs[p].ppid = LauncherPid
          /\ procs[p].alive /\ procs[p].closes = 1

====
